---------------------------- MODULE Spec2Model ----------------------------
(***************************************************************************)
(* Model of the PDF outline extractor (round1a): heading detection         *)
(* (heading_detector.py) and title extraction (title_extractor.py) over    *)
(* the page records produced by pdf_processor.py, and the cleaning of the  *)
(* result before it is written (json_generator.py).                        *)
(*                                                                         *)
(* A Python str is a sequence of one-character strings; a dict is a        *)
(* record; a list is a sequence (Python index i is TLA+ index i+1); None   *)
(* is the string "None".  Font sizes and coordinates are integers (points  *)
(* and page units).                                                        *)
(***************************************************************************)
EXTENDS Integers, Sequences, FiniteSets, TLC

VARIABLES config, pdf_files, output_dir, processed, pdf, ocr_info, doc, pc, title_candidates, title_winner, title, all_candidates,
          font_analysis, levels, classified_headings, outline, result, saved, log

\* the variables of process_pdfs and of the output directory
batch == <<pdf_files, output_dir, processed>>

vars == <<config, pdf_files, output_dir, processed, pdf, ocr_info, doc, pc, title_candidates, title_winner, title, all_candidates,
          font_analysis, levels, classified_headings, outline, result, saved, log>>

None == "None"

(***************************************************************************)
(* Characters and the str methods the code uses.                           *)
(***************************************************************************)
UpperSeq == <<"A","B","C","D","E","F","G","H","I","J","K","L","M",
              "N","O","P","Q","R","S","T","U","V","W","X","Y","Z">>
LowerSeq == <<"a","b","c","d","e","f","g","h","i","j","k","l","m",
              "n","o","p","q","r","s","t","u","v","w","x","y","z">>
UpperLetters == {UpperSeq[i] : i \in 1..26}
LowerLetters == {LowerSeq[i] : i \in 1..26}
Digits == {"0","1","2","3","4","5","6","7","8","9"}
Whitespace == {" ", "\t", "\n"}
WordChars == UpperLetters \cup LowerLetters \cup Digits \cup {"_"}

ToLowerMap == [c \in UpperLetters |-> LowerSeq[CHOOSE i \in 1..26 : UpperSeq[i] = c]]
ToUpperMap == [c \in LowerLetters |-> UpperSeq[CHOOSE i \in 1..26 : LowerSeq[i] = c]]

\* str.lower() on one character and on a string
LowerChar(c) == IF c \in UpperLetters THEN ToLowerMap[c] ELSE c
UpperChar(c) == IF c \in LowerLetters THEN ToUpperMap[c] ELSE c
lower(s) == [i \in 1..Len(s) |-> LowerChar(s[i])]

\* str.strip(): leading and trailing whitespace removed
strip(s) ==
    LET keep == {i \in 1..Len(s) : s[i] \notin Whitespace}
    IN  IF keep = {} THEN <<>>
        ELSE LET lo == CHOOSE i \in keep : \A j \in keep : i <= j
                 hi == CHOOSE i \in keep : \A j \in keep : j <= i
             IN  SubSeq(s, lo, hi)

\* str.split(): the maximal runs of non-whitespace characters, in order
WordStarts(s) == {i \in 1..Len(s) : s[i] \notin Whitespace /\ (i = 1 \/ s[i-1] \in Whitespace)}
WordEnd(s, i) == CHOOSE j \in i..Len(s) :
                    /\ (j = Len(s) \/ s[j+1] \in Whitespace)
                    /\ \A k \in i..j : s[k] \notin Whitespace
RECURSIVE SplitFrom(_, _)
SplitFrom(s, i) ==
    LET starts == {k \in WordStarts(s) : k >= i}
    IN  IF starts = {} THEN <<>>
        ELSE LET b == CHOOSE k \in starts : \A m \in starts : k <= m
                 e == WordEnd(s, b)
             IN  <<SubSeq(s, b, e)>> \o SplitFrom(s, e + 1)
split(s) == SplitFrom(s, 1)

\* ' '.join(words)
RECURSIVE join(_)
join(words) ==
    IF words = <<>> THEN <<>>
    ELSE IF Len(words) = 1 THEN words[1]
    ELSE words[1] \o <<" ">> \o join(Tail(words))

\* str.isupper(): at least one cased character and no lowercase one
isupper(s) ==
    /\ \E i \in 1..Len(s) : s[i] \in UpperLetters
    /\ \A i \in 1..Len(s) : s[i] \notin LowerLetters

\* str.istitle(): uppercase only after uncased, lowercase only after cased,
\* and at least one cased character
IsCased(c) == c \in UpperLetters \cup LowerLetters
istitle(s) ==
    /\ \E i \in 1..Len(s) : IsCased(s[i])
    /\ \A i \in 1..Len(s) :
          /\ s[i] \in UpperLetters => (i = 1 \/ ~IsCased(s[i-1]))
          /\ s[i] \in LowerLetters => (i > 1 /\ IsCased(s[i-1]))

\* str.startswith / str.endswith
startswith(s, p) == Len(p) <= Len(s) /\ SubSeq(s, 1, Len(p)) = p
endswith(s, p) == Len(p) <= Len(s) /\ SubSeq(s, Len(s) - Len(p) + 1, Len(s)) = p

\* s[:n] and s[n:]
Prefix(s, n) == SubSeq(s, 1, IF n < Len(s) THEN n ELSE Len(s))
DropFirst(s, n) == SubSeq(s, n + 1, Len(s))

\* dict.get(key, default)
Get(d, key, default) == IF key \in DOMAIN d THEN d[key] ELSE default

\* x in list
In(x, list) == \E i \in 1..Len(list) : list[i] = x

(***************************************************************************)
(* Regular expressions (module re).  A pattern is a sequence of items      *)
(* [cls, q]: a character class with quantifier "1", "?" or "+".             *)
(* Positions are indexes of the next unread character; Ends is the set of  *)
(* positions at which some match of the pattern, begun at position 1, can  *)
(* stop (all backtracking choices).                                        *)
(***************************************************************************)
One(cls) == [cls |-> cls, q |-> "1"]
Opt(cls) == [cls |-> cls, q |-> "?"]
Plus(cls) == [cls |-> cls, q |-> "+"]

\* positions reachable from p by one or more characters of cls
Runs(cls, s, p) == {e \in (p+1)..(Len(s)+1) : \A k \in p..(e-1) : s[k] \in cls}

StepItem(item, s, P) ==
    LET one  == {p + 1 : p \in {r \in P : r <= Len(s) /\ s[r] \in item.cls}}
        many == UNION {Runs(item.cls, s, p) : p \in P}
    IN  CASE item.q = "1" -> one
          [] item.q = "?" -> P \cup one
          [] item.q = "+" -> many

RECURSIVE EndsFrom(_, _, _)
EndsFrom(pattern, s, P) ==
    IF pattern = <<>> \/ P = {} THEN P
    ELSE EndsFrom(Tail(pattern), s, StepItem(Head(pattern), s, P))

Ends(pattern, s) == EndsFrom(pattern, s, {1})

\* a literal word; with re.IGNORECASE each letter matches in both cases
Literal(word) == [i \in 1..Len(word) |-> One({word[i]})]
LiteralIgnoreCase(word) ==
    [i \in 1..Len(word) |-> One({LowerChar(word[i]), UpperChar(word[i])})]

\* re.match(pattern, s) is not None, for a pattern anchored at the start
match(pattern, s) == Ends(pattern, s) # {}
\* the same for a pattern that ends with $
matchToEnd(pattern, s) == (Len(s) + 1) \in Ends(pattern, s)


(***************************************************************************)
(* heading_detector.py: HeadingDetector                                    *)
(***************************************************************************)
\* Config (config.py), defaults
MAX_HEADING_LENGTH == 200
MIN_HEADING_SCORE == 2

\* the regular expressions of _check_text_patterns
NumberedRe == <<Plus(Digits), Opt({"."}), Plus(Whitespace)>>
SubNumberedRe == <<Plus(Digits), One({"."}), Plus(Digits), Opt({"."}), Plus(Whitespace)>>
SubSubNumberedRe == <<Plus(Digits), One({"."}), Plus(Digits), One({"."}), Plus(Digits),
                      Opt({"."}), Plus(Whitespace)>>
LetteredRe == <<One(UpperLetters), Opt({"."}), Plus(Whitespace)>>
LowerLetteredRe == <<One(LowerLetters), Opt({")", "."}), Plus(Whitespace)>>
RomanRe == <<Plus({"I", "V", "X"}), Opt({"."}), Plus(Whitespace)>>
SectionWords == {<<"C","h","a","p","t","e","r">>,
                 <<"S","e","c","t","i","o","n">>,
                 <<"P","a","r","t">>,
                 <<"A","p","p","e","n","d","i","x">>}
SectionMarkerMatch(text) ==
    \E w \in SectionWords : match(LiteralIgnoreCase(w) \o <<Plus(Whitespace)>>, text)

Tag(cond, name) == IF cond THEN <<name>> ELSE <<>>

_check_text_patterns(text) ==
       Tag(match(NumberedRe, text), "numbered")
    \o Tag(match(SubNumberedRe, text), "sub_numbered")
    \o Tag(match(SubSubNumberedRe, text), "sub_sub_numbered")
    \o Tag(match(LetteredRe, text), "lettered")
    \o Tag(match(LowerLetteredRe, text), "lower_lettered")
    \o Tag(isupper(text) /\ Len(split(text)) <= 8, "all_caps")
    \o Tag(istitle(text), "title_case")
    \o Tag(match(RomanRe, text), "roman")
    \o Tag(SectionMarkerMatch(text), "section_marker")

\* flags & bit != 0, for bit a power of two
BitSet(flags, bit) == (flags \div bit) % 2 = 1

\* the features record built for one block (lines 69-90)
BlockFeatures(block, text) ==
    LET bbox == Get(block, "bbox", <<0, 0, 0, 0>>)
        flags == Get(block, "flags", 0)
    IN  [font_size |-> Get(block, "size", 0),
         is_bold |-> BitSet(flags, 16),
         is_italic |-> BitSet(flags, 2),
         left_margin |-> bbox[1],
         top_position |-> bbox[2],
         position |-> bbox[2],
         patterns |-> _check_text_patterns(text)]

\* faulty variant of BlockScore: no point for the left margin
BlockScoreNoMargin(block, text, features) ==
      (IF features.is_bold THEN 2 ELSE 0)
    + (IF features.font_size > 12 THEN 1 ELSE 0)
    + Len(features.patterns)
    + (IF 5 <= Len(text) /\ Len(text) <= 80 THEN 1 ELSE 0)

\* the score of one block (lines 92-106)
BlockScore(block, text, features) ==
      (IF features.is_bold THEN 2 ELSE 0)
    + (IF features.font_size > 12 THEN 1 ELSE 0)
    + Len(features.patterns)
    + (IF Get(block, "bbox", <<0, 0, 0, 0>>)[1] < 100 THEN 1 ELSE 0)
    + (IF 5 <= Len(text) /\ Len(text) <= 80 THEN 1 ELSE 0)

\* faulty variant of PreFilter: one-character texts are let through
PreFilterOffByOne(text) == ~(Len(text) < 1) /\ ~(Len(text) > MAX_HEADING_LENGTH)

\* the two `continue` tests on the trimmed text (lines 61-66)
PreFilter(text) == ~(Len(text) < 2) /\ ~(Len(text) > MAX_HEADING_LENGTH)

\* the candidate appended for one block, as a list of zero or one element
BlockCandidate(block, page_number) ==
    LET text == strip(Get(block, "text", <<>>))
    IN  IF ~PreFilter(text) THEN <<>>
        ELSE LET features == BlockFeatures(block, text)
                 score == BlockScore(block, text, features)
             IN  IF score >= MIN_HEADING_SCORE
                 THEN <<[text |-> text, page |-> page_number,
                         score |-> score, features |-> features]>>
                 ELSE <<>>

RECURSIVE CandidatesOf(_, _)
CandidatesOf(text_blocks, page_number) ==
    IF text_blocks = <<>> THEN <<>>
    ELSE BlockCandidate(Head(text_blocks), page_number)
         \o CandidatesOf(Tail(text_blocks), page_number)

_find_heading_candidates(page) ==
    CandidatesOf(Get(page, "text_blocks", <<>>), Get(page, "page_number", 1))

\* sorted(..., reverse=True) of a list of numbers
RECURSIVE SortedDescending(_)
SortedDescending(list) ==
    IF list = <<>> THEN <<>>
    ELSE LET i == CHOOSE k \in 1..Len(list) : \A m \in 1..Len(list) : list[m] <= list[k]
         IN  <<list[i]>> \o SortedDescending(SubSeq(list, 1, i-1) \o SubSeq(list, i+1, Len(list)))
RECURSIVE SetDescending(_)
SetDescending(S) ==
    IF S = {} THEN <<>>
    ELSE LET m == CHOOSE x \in S : \A y \in S : y <= x
         IN  <<m>> \o SetDescending(S \ {m})
Max(a, b) == IF a >= b THEN a ELSE b

\* faulty variant of Thresholds: the rule for a single size, whatever the
\* number of sizes
ThresholdsFromLargest(unique_sizes) ==
    LET base_size == IF unique_sizes # <<>> THEN unique_sizes[1] ELSE 12
    IN  [h1_threshold |-> base_size,
         h2_threshold |-> Max(base_size - 2, 10),
         h3_threshold |-> Max(base_size - 4, 8)]

\* the thresholds chosen from the distinct sizes (lines 171-185)
Thresholds(unique_sizes) ==
    IF Len(unique_sizes) >= 3
    THEN [h1_threshold |-> unique_sizes[1],
          h2_threshold |-> unique_sizes[2],
          h3_threshold |-> unique_sizes[3]]
    ELSE IF Len(unique_sizes) = 2
    THEN [h1_threshold |-> unique_sizes[1],
          h2_threshold |-> unique_sizes[2],
          h3_threshold |-> unique_sizes[2] - 1]
    ELSE LET base_size == IF unique_sizes # <<>> THEN unique_sizes[1] ELSE 12
         IN  [h1_threshold |-> base_size,
              h2_threshold |-> Max(base_size - 2, 10),
              h3_threshold |-> Max(base_size - 4, 8)]

\* faulty variant of _analyze_font_sizes: only the sizes of the page of the
\* first candidate are counted
AnalyzeOnePage(candidates) ==
    LET own == SelectSeq(candidates, LAMBDA c : c.page = candidates[1].page
                                                  /\ c.features.font_size > 0)
    IN  IF own = <<>>
        THEN [h1_threshold |-> 16, h2_threshold |-> 14, h3_threshold |-> 12]
        ELSE Thresholds(SetDescending({own[i].features.font_size : i \in 1..Len(own)}))

_analyze_font_sizes(candidates) ==
    LET positive == SelectSeq(candidates, LAMBDA c : c.features.font_size > 0)
        font_sizes == SortedDescending([i \in 1..Len(positive) |-> positive[i].features.font_size])
        unique_sizes == SetDescending({font_sizes[i] : i \in 1..Len(font_sizes)})
        t == Thresholds(unique_sizes)
    IN  IF font_sizes = <<>>
        THEN [h1_threshold |-> 16, h2_threshold |-> 14, h3_threshold |-> 12]
        ELSE [all_sizes |-> font_sizes,
              unique_sizes |-> unique_sizes,
              max_size |-> font_sizes[1],
              min_size |-> font_sizes[Len(font_sizes)],
              median_size |-> font_sizes[(Len(font_sizes) \div 2) + 1],
              h1_threshold |-> t.h1_threshold,
              h2_threshold |-> t.h2_threshold,
              h3_threshold |-> t.h3_threshold]

\* faulty variant of PatternLevel: the levels of rules 2 and 3 are exchanged
PatternLevelSwapped(patterns, features) ==
    IF In("numbered", patterns) /\ match(NumberedRe, Get(features, "text", <<>>)) THEN "H1"
    ELSE IF In("sub_numbered", patterns) THEN "H3"
    ELSE IF In("sub_sub_numbered", patterns) THEN "H2"
    ELSE IF In("section_marker", patterns) THEN "H1"
    ELSE None

\* pattern-based classification (lines 224-235); None when no rule fires
PatternLevel(patterns, features) ==
    IF In("numbered", patterns) /\ match(NumberedRe, Get(features, "text", <<>>)) THEN "H1"
    ELSE IF In("sub_numbered", patterns) THEN "H2"
    ELSE IF In("sub_sub_numbered", patterns) THEN "H3"
    ELSE IF In("section_marker", patterns) THEN "H1"
    ELSE None

\* font size-based classification (lines 237-245)
FontTier(font_size, h1_thresh, h2_thresh, h3_thresh) ==
    IF font_size >= h1_thresh THEN "H1"
    ELSE IF font_size >= h2_thresh THEN "H2"
    ELSE IF font_size >= h3_thresh THEN "H3"
    ELSE None

\* faulty variant of StyleAdjust: non-bold text is not demoted
StyleKeep(base_level, features) == base_level

\* adjust based on styling (lines 247-258)
StyleAdjust(base_level, features) ==
    IF Get(features, "is_bold", FALSE) THEN base_level
    ELSE IF base_level = "H1" THEN "H2"
    ELSE IF base_level = "H2" THEN "H3"
    ELSE IF base_level = "H3" THEN None
    ELSE base_level

\* special pattern adjustments (lines 260-266)
PatternAdjust(base_level, patterns, features) ==
    IF In("all_caps", patterns) /\ Len(Get(features, "text", <<>>)) < 50
    THEN (IF base_level = "H3" THEN "H2" ELSE base_level)
    ELSE base_level

\* the locals of one _determine_heading_level call: the rule that decided,
\* the font-size tier, the level after the style adjustment, the result
DetermineSteps(font_size, patterns, features, h1_thresh, h2_thresh, h3_thresh) ==
    LET p == PatternLevel(patterns, features)
        base == FontTier(font_size, h1_thresh, h2_thresh, h3_thresh)
        styled == StyleAdjust(base, features)
    IN  IF p # None
        THEN [rule |-> "pattern", base |-> None, styled |-> None, level |-> p]
        ELSE IF base = None
        THEN [rule |-> "font", base |-> None, styled |-> None, level |-> None]
        ELSE IF styled = None
        THEN [rule |-> "font", base |-> base, styled |-> None, level |-> None]
        ELSE [rule |-> "font", base |-> base, styled |-> styled,
              level |-> PatternAdjust(styled, patterns, features)]

_determine_heading_level(font_size, patterns, features, h1_thresh, h2_thresh, h3_thresh) ==
    DetermineSteps(font_size, patterns, features, h1_thresh, h2_thresh, h3_thresh).level

\* faulty variant of ClassifyOne: the `if level:` test is missing
ClassifyOneUnfiltered(candidate, h1_threshold, h2_threshold, h3_threshold) ==
    LET features == candidate.features
        level == _determine_heading_level(features.font_size, features.patterns, features,
                                          h1_threshold, h2_threshold, h3_threshold)
    IN  <<[level |-> level, text |-> candidate.text, page |-> candidate.page,
           position |-> Get(features, "position", 0)]>>

\* the list appended for one candidate (lines 198-215)
ClassifyOne(candidate, h1_threshold, h2_threshold, h3_threshold) ==
    LET features == candidate.features
        level == _determine_heading_level(features.font_size, features.patterns, features,
                                          h1_threshold, h2_threshold, h3_threshold)
    IN  IF level # None
        THEN <<[level |-> level, text |-> candidate.text, page |-> candidate.page,
                position |-> Get(features, "position", 0)]>>
        ELSE <<>>

\* faulty variant of ClassifyAll: a candidate whose text is classified again
\* later in the list is skipped
RECURSIVE ClassifyAllDistinct(_, _, _, _)
ClassifyAllDistinct(candidates, h1, h2, h3) ==
    IF candidates = <<>> THEN <<>>
    ELSE LET one == ClassifyOne(Head(candidates), h1, h2, h3)
             rest == ClassifyAllDistinct(Tail(candidates), h1, h2, h3)
         IN  IF one # <<>> /\ \E k \in 1..Len(rest) : rest[k].text = one[1].text
             THEN rest
             ELSE one \o rest

RECURSIVE ClassifyAll(_, _, _, _)
ClassifyAll(candidates, h1, h2, h3) ==
    IF candidates = <<>> THEN <<>>
    ELSE ClassifyOne(Head(candidates), h1, h2, h3) \o ClassifyAll(Tail(candidates), h1, h2, h3)

_classify_headings(candidates, analysis) ==
    ClassifyAll(candidates,
                Get(analysis, "h1_threshold", 16),
                Get(analysis, "h2_threshold", 14),
                Get(analysis, "h3_threshold", 12))

\* faulty variant of SortKeyLE: the sort key is the page alone
SortKeyPageOnly(a, b) == a.page <= b.page

\* list.sort(key=lambda x: (x['page'], x.get('position', 0))): stable
SortKeyLE(a, b) ==
    \/ a.page < b.page
    \/ a.page = b.page /\ Get(a, "position", 0) <= Get(b, "position", 0)
RECURSIVE InsertByKey(_, _)
InsertByKey(x, sorted) ==
    IF sorted = <<>> THEN <<x>>
    ELSE IF SortKeyLE(Head(sorted), x) THEN <<Head(sorted)>> \o InsertByKey(x, Tail(sorted))
    ELSE <<x>> \o sorted
RECURSIVE SortFrom(_, _)
SortFrom(list, sorted) ==
    IF list = <<>> THEN sorted
    ELSE SortFrom(Tail(list), InsertByKey(Head(list), sorted))
SortByPageAndPosition(list) == SortFrom(list, <<>>)

\* faulty variant of FreshCandidates: the list of the previous call is kept
StaleCandidates(previous) == previous

\* all_candidates = [] (line 31)
FreshCandidates(previous) == <<>>

\* the loop over the pages (lines 34-36)
RECURSIVE CollectCandidates(_, _)
CollectCandidates(pages, acc) ==
    IF pages = <<>> THEN acc
    ELSE CollectCandidates(Tail(pages), acc \o _find_heading_candidates(Head(pages)))

\* the locals of _classify_headings' calls of _determine_heading_level
LevelsOf(candidates, analysis) ==
    [i \in 1..Len(candidates) |->
        DetermineSteps(candidates[i].features.font_size, candidates[i].features.patterns,
                       candidates[i].features,
                       Get(analysis, "h1_threshold", 16),
                       Get(analysis, "h2_threshold", 14),
                       Get(analysis, "h3_threshold", 12))]

\* font_analysis before _analyze_font_sizes has been called
NoAnalysis == [unset |-> TRUE]

\* detect_headings: its locals and its return value
detect_headings(pages, previous) ==
    LET cands == CollectCandidates(pages, FreshCandidates(previous))
        analysis == _analyze_font_sizes(cands)
        classified == _classify_headings(cands, analysis)
    IN  IF cands = <<>>
        THEN [all_candidates |-> cands, font_analysis |-> NoAnalysis, levels |-> <<>>,
              classified_headings |-> <<>>, return |-> <<>>]
        ELSE [all_candidates |-> cands, font_analysis |-> analysis,
              levels |-> LevelsOf(cands, analysis),
              classified_headings |-> classified,
              return |-> SortByPageAndPosition(classified)]


(***************************************************************************)
(* title_extractor.py: TitleExtractor                                      *)
(***************************************************************************)
MAX_TITLE_LENGTH == 200

\* None where a str is expected (no str is a one-element list holding "None")
NoText == <<None>>

UntitledDocument == <<"U","n","t","i","t","l","e","d"," ","D","o","c","u","m","e","n","t">>

\* list.sort(key=lambda x: x[0]) on (key, block) pairs: stable
RECURSIVE InsertPair(_, _)
InsertPair(x, sorted) ==
    IF sorted = <<>> THEN <<x>>
    ELSE IF Head(sorted)[1] <= x[1] THEN <<Head(sorted)>> \o InsertPair(x, Tail(sorted))
    ELSE <<x>> \o sorted
RECURSIVE SortPairsFrom(_, _)
SortPairsFrom(list, sorted) ==
    IF list = <<>> THEN sorted
    ELSE SortPairsFrom(Tail(list), InsertPair(Head(list), sorted))
SortPairs(list) == SortPairsFrom(list, <<>>)

BlockTop(block) == Get(block, "bbox", <<0, 0, 0, 0>>)[2]
TopPairs(blocks) == [i \in 1..Len(blocks) |-> <<BlockTop(blocks[i]), blocks[i]>>]

RECURSIVE SumSeq(_)
SumSeq(list) == IF list = <<>> THEN 0 ELSE Head(list) + SumSeq(Tail(list))
MaxOfSeq(list) == CHOOSE x \in {list[i] : i \in 1..Len(list)} :
                     \A i \in 1..Len(list) : list[i] <= x
Abs(x) == IF x < 0 THEN 0 - x ELSE x

\* sub in s, for strings
Contains(s, sub) == \E i \in 0..(Len(s) - Len(sub)) : SubSeq(s, i + 1, i + Len(sub)) = sub

\* faulty variant of _find_by_font_size: the topmost span of any positive size
_find_topmost_sized(text_blocks) ==
    LET sized == SortPairs(TopPairs(SelectSeq(text_blocks, LAMBDA b : Get(b, "size", 0) > 0)))
    IN  IF sized = <<>> THEN NoText ELSE sized[1][2].text

\* Strategy 1: largest font size.  abs(size - max) < 0.1 is 10*|size - max| < 1
_find_by_font_size(text_blocks) ==
    LET sized == SelectSeq(text_blocks, LAMBDA b : Get(b, "size", 0) > 0)
        font_sizes == [i \in 1..Len(sized) |-> sized[i].size]
        max_font_size == MaxOfSeq(font_sizes)
        largest_blocks == SortPairs(TopPairs(
            SelectSeq(text_blocks, LAMBDA b : 10 * Abs(Get(b, "size", 0) - max_font_size) < 1)))
    IN  IF text_blocks = <<>> THEN NoText
        ELSE IF font_sizes = <<>> THEN NoText
        ELSE IF largest_blocks # <<>> THEN largest_blocks[1][2].text
        ELSE NoText

\* Strategy 2: central positioning.  With w = page_width, l and r the edges:
\* abs(l + (r-l)/2 - w/2) < w*0.2 is 5*|l + r - w| < 2*w; top < w*0.3 is 10*top < 3*w
IsCentered(block, page_width) ==
    LET bbox == Get(block, "bbox", <<0, 0, 0, 0>>)
    IN  /\ 5 * Abs(bbox[1] + bbox[3] - page_width) < 2 * page_width
        /\ 10 * bbox[2] < 3 * page_width
_find_by_position(text_blocks) ==
    LET page_width == MaxOfSeq([i \in 1..Len(text_blocks) |->
                                   Get(text_blocks[i], "bbox", <<0, 0, 0, 0>>)[3]])
        centered_blocks == SortPairs(TopPairs(
            SelectSeq(text_blocks, LAMBDA b : IsCentered(b, page_width))))
    IN  IF text_blocks = <<>> THEN NoText
        ELSE IF centered_blocks # <<>> THEN centered_blocks[1][2].text
        ELSE NoText

\* Strategy 3: bold text
BoldIndicators == {<<"b","o","l","d">>, <<"b","l","a","c","k">>,
                   <<"h","e","a","v","y">>,
                   <<"s","e","m","i","b","o","l","d">>}
IsBoldBlock(block) ==
    \/ BitSet(Get(block, "flags", 0), 16)
    \/ \E indicator \in BoldIndicators : Contains(lower(Get(block, "font", <<>>)), indicator)
_find_by_style(text_blocks) ==
    LET bold_blocks == SortPairs(TopPairs(
            SelectSeq(text_blocks, LAMBDA b : IsBoldBlock(b) /\ BlockTop(b) < 200)))
    IN  IF bold_blocks # <<>> THEN bold_blocks[1][2].text ELSE NoText

\* Strategy 4: top positioning.  size >= sum/len is size*len >= sum
_find_by_top_position(text_blocks) ==
    LET font_sizes == [i \in 1..Len(text_blocks) |-> Get(text_blocks[i], "size", 0)]
        top_blocks == SortPairs(TopPairs(
            SelectSeq(text_blocks, LAMBDA b :
                /\ BlockTop(b) < 100
                /\ Get(b, "size", 0) * Len(font_sizes) >= SumSeq(font_sizes))))
    IN  IF text_blocks = <<>> THEN NoText
        ELSE IF top_blocks # <<>> THEN top_blocks[1][2].text
        ELSE NoText

\* the patterns of _looks_like_title
RECURSIVE GroupStar(_, _, _)
GroupStar(group, s, P) ==
    LET Q == P \cup EndsFrom(group, s, P)
    IN  IF Q = P THEN P ELSE GroupStar(group, s, Q)
CapitalWordsMatch(text) ==
    matchToEnd(<<One(UpperLetters), Plus(LowerLetters \cup Whitespace)>>, text)
AllCapsMatch(text) == matchToEnd(<<Plus(UpperLetters \cup Whitespace)>>, text)
MultipleWordsMatch(text) ==
    (Len(text) + 1) \in GroupStar(<<Plus(Whitespace), Plus(WordChars)>>, text,
                                  Ends(<<Plus(WordChars)>>, text))
AvoidMatch(text) ==
    \/ matchToEnd(<<Plus(Digits)>>, text)
    \/ match(Literal(<<"p","a","g","e">>) \o <<Plus(Whitespace), Plus(Digits)>>, text)
    \/ match(Literal(<<"c","h","a","p","t","e","r">>) \o <<Plus(Whitespace), Plus(Digits)>>, text)
    \/ match(Literal(<<"w","w","w",".">>), text)
    \/ Contains(text, <<"@">>)

_looks_like_title(raw) ==
    LET text == strip(raw)
    IN  IF CapitalWordsMatch(text) \/ AllCapsMatch(text) \/ MultipleWordsMatch(text) THEN TRUE
        ELSE IF AvoidMatch(lower(text)) THEN FALSE
        ELSE TRUE

\* the candidates list of extract_title (lines 36-57): (strategy, text) pairs
Proposal(strategy, text) ==
    IF text # NoText /\ text # <<>> THEN <<<<strategy, text>>>> ELSE <<>>
TitleCandidates(text_blocks) ==
       Proposal("font_size", _find_by_font_size(text_blocks))
    \o Proposal("position", _find_by_position(text_blocks))
    \o Proposal("style", _find_by_style(text_blocks))
    \o Proposal("top", _find_by_top_position(text_blocks))

\* faulty variant of StrategyWeight: every strategy weighs the same
StrategyWeightFlat(strategy) == 1

StrategyWeight(strategy) ==
    CASE strategy = "font_size" -> 3
      [] strategy = "position" -> 2
      [] strategy = "style" -> 2
      [] strategy = "top" -> 1
      [] OTHER -> 0

\* the scores dict after the first loop (lines 186-200): (text, score) pairs in
\* insertion order
RECURSIVE StrategyScores(_, _)
StrategyScores(candidates, scores) ==
    IF candidates = <<>> THEN scores
    ELSE LET strategy == Head(candidates)[1]
             text == Head(candidates)[2]
             known == \E i \in 1..Len(scores) : scores[i][1] = text
             added == IF known THEN scores ELSE Append(scores, <<text, 0>>)
         IN  StrategyScores(Tail(candidates),
                 [i \in 1..Len(added) |->
                     IF added[i][1] = text
                     THEN <<text, added[i][2] + StrategyWeight(strategy)>>
                     ELSE added[i]])

\* the adjustment of one text (lines 203-213)
TextAdjustment(text) ==
    LET text_length == Len(strip(text))
    IN    (IF 5 <= text_length /\ text_length <= 100 THEN 1
           ELSE IF text_length > 200 THEN 0 - 2 ELSE 0)
        + (IF _looks_like_title(text) THEN 2 ELSE 0)

FinalScores(candidates) ==
    LET scores == StrategyScores(candidates, <<>>)
    IN  [i \in 1..Len(scores) |-> <<scores[i][1], scores[i][2] + TextAdjustment(scores[i][1])>>]

\* max(scores.items(), key=lambda x: x[1]): the first item with the highest score
_select_best_candidate(candidates, text_blocks) ==
    LET scores == FinalScores(candidates)
        best == CHOOSE i \in 1..Len(scores) :
                   /\ \A j \in 1..Len(scores) : scores[j][2] <= scores[i][2]
                   /\ \A j \in 1..(i-1) : scores[j][2] < scores[i][2]
    IN  IF candidates = <<>> THEN NoText
        ELSE IF scores # <<>> THEN scores[best][1]
        ELSE NoText

prefixes_to_remove == <<<<"t","i","t","l","e",":">>,
                        <<"s","u","b","j","e","c","t",":">>,
                        <<"d","o","c","u","m","e","n","t",":">>>>
ELLIPSIS == <<".", ".", ".">>

\* the loop over prefixes_to_remove (lines 262-264)
RECURSIVE RemovePrefixes(_, _)
RemovePrefixes(t, prefixes) ==
    IF prefixes = <<>> THEN t
    ELSE RemovePrefixes(IF startswith(lower(t), Head(prefixes))
                        THEN strip(DropFirst(t, Len(Head(prefixes))))
                        ELSE t,
                        Tail(prefixes))

\* limit length (lines 266-270)
LimitLength(t) ==
    IF Len(t) > MAX_TITLE_LENGTH
    THEN LET cut == strip(Prefix(t, MAX_TITLE_LENGTH))
         IN  IF ~endswith(cut, ELLIPSIS) THEN cut \o ELLIPSIS ELSE cut
    ELSE t

\* faulty variant of _clean_title: a title that is empty after cleaning is
\* returned as it is
_clean_title_no_sentinel(t) ==
    IF t = NoText \/ t = <<>> THEN UntitledDocument
    ELSE LimitLength(RemovePrefixes(join(split(t)), prefixes_to_remove))

_clean_title(t) ==
    IF t = NoText \/ t = <<>> THEN UntitledDocument
    ELSE LET cleaned == LimitLength(RemovePrefixes(join(split(t)), prefixes_to_remove))
         IN  IF cleaned # <<>> THEN cleaned ELSE UntitledDocument

extract_title(first_page) ==
    LET text_blocks == Get(first_page, "text_blocks", <<>>)
        best_title == _select_best_candidate(TitleCandidates(text_blocks), text_blocks)
    IN  IF text_blocks = <<>> THEN UntitledDocument
        ELSE IF best_title # NoText /\ best_title # <<>> THEN _clean_title(best_title)
        ELSE UntitledDocument


(***************************************************************************)
(* The documents: doc_info records as _extract_native_pdf builds them      *)
(* (pdf_processor.py lines 67-106).                                        *)
(***************************************************************************)
MaxBlocks == 3
MaxCalls == 3

Repeat(c, n) == [i \in 1..n |-> c]

T_NUMBERED == <<"1","."," ","I","n","t","r","o","d","u","c","t","i","o","n">>
T_SUB_NUMBERED == <<"2",".","1"," ","B","a","c","k","g","r","o","u","n","d">>
T_SUB_SUB_NUMBERED == <<"1",".","2",".","3"," ","S","c","o","p","e">>
T_SECTION == <<"C","h","a","p","t","e","r"," ","1">>
T_CAPS == <<"S","U","M","M","A","R","Y">>
T_LONG_CAPS == Repeat("A", 24) \o <<" ">> \o Repeat("B", 25)
T_PLAIN == <<"p","l","a","i","n"," ","t","e","x","t"," ","h","e","r","e">>
T_SHORT == <<"x">>
T_TOO_LONG == Repeat("a", MAX_HEADING_LENGTH + 1)
T_OVERVIEW == <<"O","v","e","r","v","i","e","w">>
HELVETICA == <<"H","e","l","v","e","t","i","c","a">>

SubjectTexts == {T_NUMBERED, T_SUB_NUMBERED, T_SUB_SUB_NUMBERED, T_SECTION, T_CAPS,
                 T_LONG_CAPS, T_PLAIN, T_SHORT, T_TOO_LONG}
Sizes == {0, 1, 2, 9, 13, 16}
Flags == {0, 16}
Lefts == {50, 150}
Tops == {20, 60, 100}
PageNumbers == {1, 2}

\* one text_block (pdf_processor.py lines 94-101)
Block(text, size, flags, left, top) ==
    [text |-> text, font |-> HELVETICA, size |-> size, flags |-> flags,
     bbox |-> <<left, top, left + 200, top + 12>>, color |-> 0]

Page(page_number, text_blocks) == [page_number |-> page_number, text_blocks |-> text_blocks]

SeqsUpTo(S, n) == UNION {[1..k -> S] : k \in 0..n}

\* Typography family: one page; up to MaxBlocks - 1 bold context lines of
\* some positive size each, followed by one span of any text, size, style
\* and margin.
ContextSizes == SeqsUpTo({1, 2, 13, 16}, MaxBlocks - 1)
ContextBlocks(sizes) == [i \in 1..Len(sizes) |-> Block(T_OVERVIEW, sizes[i], 16, 50, 40 * i)]
TypographyDocuments ==
    {[pages |-> <<Page(1, ContextBlocks(sizes) \o <<Block(text, size, flags, left, 400)>>)>>,
      total_pages |-> 1] :
        sizes \in ContextSizes, text \in SubjectTexts, size \in Sizes,
        flags \in Flags, left \in Lefts}

\* Layout family: two pages, handed over in either order; up to MaxBlocks
\* bold spans, each on either page at any of three heights, in any list order.
Placements == SeqsUpTo({T_OVERVIEW} \X PageNumbers \X Tops, MaxBlocks)
PlacedOn(placement, page_number) ==
    LET here == SelectSeq(placement, LAMBDA x : x[2] = page_number)
    IN  [i \in 1..Len(here) |-> Block(here[i][1], 16, 16, 50, here[i][3])]
LayoutDocuments ==
    {[pages |-> [i \in 1..2 |-> Page(order[i], PlacedOn(placement, order[i]))],
      total_pages |-> 2] :
        placement \in Placements, order \in {<<1, 2>>, <<2, 1>>}}

\* a PDF without pages
NoPagesDocument == [pages |-> <<>>, total_pages |-> 0]

\* Profile family: two pages, each empty or with one bold span of a size of
\* its own
ProfileDocuments ==
    LET Contents == {<<>>} \cup {<<Block(T_OVERVIEW, size, 16, 50, 20)>> : size \in {9, 13, 16}}
    IN  {[pages |-> <<Page(1, first), Page(2, second)>>, total_pages |-> 2] :
            first \in Contents, second \in Contents}

Documents == TypographyDocuments \cup LayoutDocuments \cup ProfileDocuments
                \cup {NoPagesDocument}

\* the documents of the repeated-invocation specification
RepeatDocuments ==
    {[pages |-> <<Page(1, <<Block(text, 13, flags, 50, 20)>>)>>, total_pages |-> 1] :
        text \in {T_NUMBERED, T_CAPS, T_SHORT}, flags \in Flags}

(***************************************************************************)
(* The state machine: PDFProcessor.extract_outline on the extracted        *)
(* doc_info (pdf_processor.py lines 50-59), one action per call.  log is   *)
(* the history of the calls that returned: the document and the result.   *)
(***************************************************************************)
NoResult == [unset |-> TRUE]

\* no batch is running and the output directory is empty
NoBatch == pdf_files = <<>> /\ output_dir = <<>> /\ processed = 0

\* no PDF file is being extracted
NoPdf == [unset |-> TRUE]
NoFile == pdf = NoPdf /\ ocr_info = NoResult

\* the font-size fallbacks of Config (config.py lines 34-36), as read from the
\* environment when the class is created
DEFAULT_H1_FONT_SIZE == 16
DEFAULT_H2_FONT_SIZE == 14
DEFAULT_H3_FONT_SIZE == 12
DefaultConfig == [DEFAULT_H1_FONT_SIZE |-> DEFAULT_H1_FONT_SIZE,
                  DEFAULT_H2_FONT_SIZE |-> DEFAULT_H2_FONT_SIZE,
                  DEFAULT_H3_FONT_SIZE |-> DEFAULT_H3_FONT_SIZE]

\* self.config = Config() (main.py line 31): the environment decides the values
Configurations ==
    [DEFAULT_H1_FONT_SIZE : {DEFAULT_H1_FONT_SIZE, 20},
     DEFAULT_H2_FONT_SIZE : {DEFAULT_H2_FONT_SIZE, 18},
     DEFAULT_H3_FONT_SIZE : {DEFAULT_H3_FONT_SIZE, 15}]

InitCall ==
    /\ pc = "start"
    /\ title_candidates = <<>>
    /\ title_winner = NoText
    /\ title = NoText
    /\ all_candidates = <<>>
    /\ font_analysis = NoAnalysis
    /\ levels = <<>>
    /\ classified_headings = <<>>
    /\ outline = <<>>
    /\ result = NoResult
    /\ saved = NoResult
    /\ log = <<>>

InitLocals == config = DefaultConfig /\ NoBatch /\ NoFile /\ InitCall

Init == doc \in Documents /\ InitLocals

InitRepeat == doc \in RepeatDocuments /\ InitLocals

\* title = self.title_extractor.extract_title(doc_info['pages'][0]) (line 51);
\* pages[0] of an empty list raises IndexError, which extract_outline re-raises
ExtractTitle ==
    /\ pc = "start"
    /\ IF doc.pages = <<>>
       THEN /\ pc' = "raised"
            /\ title' = NoText
            /\ UNCHANGED <<title_candidates, title_winner>>
       ELSE LET text_blocks == Get(doc.pages[1], "text_blocks", <<>>)
            IN  /\ pc' = "titled"
                /\ title' = extract_title(doc.pages[1])
                /\ IF text_blocks = <<>>
                   THEN UNCHANGED <<title_candidates, title_winner>>
                   ELSE /\ title_candidates' = TitleCandidates(text_blocks)
                        /\ title_winner' =
                              _select_best_candidate(TitleCandidates(text_blocks), text_blocks)
    /\ UNCHANGED <<config, batch, pdf, ocr_info, doc, all_candidates, font_analysis, levels, classified_headings,
                   outline, result, saved, log>>

\* headings = self.heading_detector.detect_headings(doc_info['pages']) (line 54)
DetectHeadings ==
    /\ pc = "titled"
    /\ LET run == detect_headings(doc.pages, all_candidates)
       IN  /\ all_candidates' = run.all_candidates
           /\ font_analysis' = run.font_analysis
           /\ levels' = run.levels
           /\ classified_headings' = run.classified_headings
           /\ outline' = run.return
    /\ pc' = "detected"
    /\ UNCHANGED <<config, batch, pdf, ocr_info, doc, title_candidates, title_winner, title, result, saved, log>>

\* return {"title": title, "outline": headings} (lines 56-59)
Return ==
    /\ pc = "detected"
    /\ result' = [title |-> title, outline |-> outline]
    /\ pc' = "done"
    /\ log' = Append(log, [doc |-> doc, result |-> result'])
    /\ UNCHANGED <<config, batch, pdf, ocr_info, doc, title_candidates, title_winner, title, all_candidates,
                   font_analysis, levels, classified_headings, outline, saved>>

\* the next extract_outline call on the same PDFProcessor
\* (main.py lines 54-60), on any document
NextDocument ==
    /\ pc \in {"done", "raised"}
    /\ Len(log) < MaxCalls
    /\ doc' \in RepeatDocuments
    /\ pc' = "start"
    /\ UNCHANGED <<config, batch, pdf, ocr_info, title_candidates, title_winner, title, all_candidates, font_analysis,
                   levels, classified_headings, outline, result, saved, log>>

Next == ExtractTitle \/ DetectHeadings \/ Return

Spec == Init /\ [][Next]_vars

\* the documents of the configuration specification: one page with one span,
\* without a size or with one
ConfigDocuments ==
    {[pages |-> <<Page(1, <<Block(text, size, flags, 50, 20)>>)>>, total_pages |-> 1] :
        text \in {T_NUMBERED, T_CAPS, T_OVERVIEW}, size \in {0, 13}, flags \in Flags}

InitConfig == config \in Configurations /\ NoBatch /\ NoFile /\ doc \in ConfigDocuments /\ InitCall

SpecConfig == InitConfig /\ [][Next]_vars

NextRepeat == ExtractTitle \/ DetectHeadings \/ Return \/ NextDocument

SpecRepeat == InitRepeat /\ [][NextRepeat]_vars

(***************************************************************************)
(* extract_outline on documents whose first page carries title spans       *)
(***************************************************************************)
T_TITLE_ONLY == <<"T","i","t","l","e",":">>
T_STACKED_ONLY == <<"T","i","t","l","e",":"," ","S","u","b","j","e","c","t",":">>
T_PAGE == <<"p","a","g","e"," ","1">>
T_DIGITS == <<"1","2","3">>
T_URL == <<"w","w","w",".","a",".","b">>
T_EMAIL == <<"a","@","b">>
T_PUNCTUATED == <<"H","e","l","l","o",","," ","w","o","r","l","d","!">>

TitleTexts == {T_TITLE_ONLY, T_STACKED_ONLY, T_PAGE, T_DIGITS, T_URL, T_EMAIL,
               T_PUNCTUATED, T_SECTION, T_OVERVIEW, T_TOO_LONG}

\* Title family: one page whose first span has any of the title texts, a
\* missing, small or large size, either style, any of three heights and
\* either margin; possibly with a second span "Overview" before or after it.
TitleDocuments ==
    LET Subjects == {Block(text, size, flags, left, top) :
                        text \in TitleTexts, size \in {0, 10, 24}, flags \in Flags,
                        left \in Lefts, top \in {20, 150, 250}}
        Rivals == {Block(T_OVERVIEW, size, flags, 50, top) :
                        size \in {10, 24}, flags \in Flags, top \in {20, 150}}
        Lists == {<<s>> : s \in Subjects}
                    \cup {<<s, r>> : s \in Subjects, r \in Rivals}
                    \cup {<<r, s>> : s \in Subjects, r \in Rivals}
    IN  {[pages |-> <<Page(1, text_blocks)>>, total_pages |-> 1] : text_blocks \in Lists}

InitTitle == doc \in TitleDocuments /\ InitLocals

SpecTitle == InitTitle /\ [][Next]_vars


(***************************************************************************)
(* TitleExtractor._clean_title as a function of any title string           *)
(* (title_extractor.py lines 252-272): the title is cleaned, and the       *)
(* cleaned title is cleaned again; log is the list of the values returned. *)
(***************************************************************************)
\* title strings: up to two stacked prefixes in front of a body that is
\* empty, short, irregularly spaced, or around MAX_TITLE_LENGTH characters
\* long (with the cut falling inside a word, just after a space, or at the
\* end of an ellipsis)
RawTitles ==
    LET Prefixes == {<<"T","i","t","l","e",":">>,
                     <<"s","u","b","j","e","c","t",":">>,
                     <<"d","o","c","u","m","e","n","t",":">>}
        Bodies == {<<>>, <<"x">>, <<"a"," "," ","b">>,
                   Repeat("a", MAX_TITLE_LENGTH),
                   Repeat("a", MAX_TITLE_LENGTH + 1),
                   Repeat("a", MAX_TITLE_LENGTH - 1) \o <<" ","b","c">>,
                   Repeat("a", MAX_TITLE_LENGTH - 3) \o ELLIPSIS \o <<"b">>}
        Stacks == SeqsUpTo(Prefixes, 2)
        Stacked(stack) == IF stack = <<>> THEN <<>>
                          ELSE IF Len(stack) = 1 THEN stack[1] \o <<" ">>
                          ELSE stack[1] \o <<" ">> \o stack[2] \o <<" ">>
    IN  {Stacked(stack) \o body : stack \in Stacks, body \in Bodies}

InitClean ==
    /\ config = DefaultConfig /\ NoBatch /\ NoFile
    /\ doc = NoPagesDocument
    /\ pc = "clean"
    /\ title_candidates = <<>>
    /\ title_winner = NoText
    /\ title \in RawTitles
    /\ all_candidates = <<>>
    /\ font_analysis = NoAnalysis
    /\ levels = <<>>
    /\ classified_headings = <<>>
    /\ outline = <<>>
    /\ result = NoResult
    /\ saved = NoResult
    /\ log = <<>>

\* title = self._clean_title(title)
CleanTitle ==
    /\ pc = "clean"
    /\ Len(log) < MaxCalls
    /\ title' = _clean_title(title)
    /\ log' = Append(log, title')
    /\ UNCHANGED <<config, batch, pdf, ocr_info, doc, pc, title_candidates, title_winner, all_candidates, font_analysis,
                   levels, classified_headings, outline, result, saved>>

NextClean == CleanTitle

SpecClean == InitClean /\ [][NextClean]_vars

(***************************************************************************)
(* json_generator.py: JSONGenerator.save_outline on any outline_data.      *)
(* A value that is not a str (a title) is NoText; a dict key holding None  *)
(* or no value is a missing field of the record.                           *)
(***************************************************************************)
MAX_SAVED_TITLE == 200
MAX_SAVED_TEXT == 500

\* JSONGenerator._clean_title
JSONGenerator_clean_title(t) ==
    IF t = NoText THEN UntitledDocument
    ELSE LET collapsed == join(split(t))
             limited == IF Len(collapsed) > MAX_SAVED_TITLE
                        THEN Prefix(collapsed, MAX_SAVED_TITLE - 3) \o ELLIPSIS
                        ELSE collapsed
         IN  IF limited # <<>> THEN limited ELSE UntitledDocument

\* not all([level, text, page]): None, '' and 0 are false
MissingField(entry) ==
    \/ "level" \notin DOMAIN entry \/ entry.level = None \/ entry.level = ""
    \/ "text" \notin DOMAIN entry \/ entry.text = NoText \/ entry.text = <<>>
    \/ "page" \notin DOMAIN entry \/ entry.page = 0

\* faulty variant of CleanEntry: the page is not compared with 1
CleanEntryNoPageTest(entry) ==
    LET clean_text == join(split(entry.text))
    IN  IF MissingField(entry) THEN <<>>
        ELSE IF ~In(entry.level, <<"H1", "H2", "H3">>) THEN <<>>
        ELSE IF clean_text = <<>> THEN <<>>
        ELSE <<[level |-> entry.level,
                text |-> IF Len(clean_text) > MAX_SAVED_TEXT
                         THEN Prefix(clean_text, MAX_SAVED_TEXT - 3) \o ELLIPSIS
                         ELSE clean_text,
                page |-> entry.page]>>

\* the body of the loop of _clean_outline (lines 81-120): the cleaned entry,
\* or nothing where the loop continues
CleanEntry(entry) ==
    LET clean_text == join(split(entry.text))
    IN  IF MissingField(entry) THEN <<>>
        ELSE IF ~In(entry.level, <<"H1", "H2", "H3">>) THEN <<>>
        ELSE IF entry.page < 1 THEN <<>>
        ELSE IF clean_text = <<>> THEN <<>>
        ELSE <<[level |-> entry.level,
                text |-> IF Len(clean_text) > MAX_SAVED_TEXT
                         THEN Prefix(clean_text, MAX_SAVED_TEXT - 3) \o ELLIPSIS
                         ELSE clean_text,
                page |-> entry.page]>>

RECURSIVE _clean_outline(_)
_clean_outline(entries) ==
    IF entries = <<>> THEN <<>>
    ELSE CleanEntry(Head(entries)) \o _clean_outline(Tail(entries))

_validate_and_clean(data) ==
    LET cleaned == [title |-> JSONGenerator_clean_title(Get(data, "title", UntitledDocument)),
                    outline |-> _clean_outline(Get(data, "outline", <<>>))]
    IN  IF "error" \in DOMAIN data
        THEN [title |-> cleaned.title, outline |-> cleaned.outline, error |-> data.error]
        ELSE cleaned

\* outline_data handed to save_outline: a title and up to MaxBlocks entries,
\* each an entry as detect_headings builds it (one with a text of more than
\* MAX_SAVED_TEXT characters) or one with a wrong or missing level, an empty
\* or blank text, or a page that is zero or negative
OutlineData ==
    LET Spaced == <<"a", " ", " ", "b">>
        Entries ==
            {[level |-> l, text |-> T_OVERVIEW, page |-> 1, position |-> 20] :
                 l \in {"H1", "H4"}}
            \cup {[level |-> "H2", text |-> t, page |-> 2, position |-> 60] :
                 t \in {Spaced, <<>>, <<" ", " ">>, Repeat("a", MAX_SAVED_TEXT + 1)}}
            \cup {[level |-> "H3", text |-> T_CAPS, page |-> n, position |-> 100] :
                 n \in {0 - 1, 0, 3}}
            \cup {[text |-> T_CAPS, page |-> 1, position |-> 100]}
    IN  {[title |-> T_OVERVIEW, outline |-> entries] :
            entries \in SeqsUpTo(Entries, MaxBlocks)}

InitSave ==
    /\ config = DefaultConfig /\ NoBatch /\ NoFile
    /\ doc = NoPagesDocument
    /\ pc = "done"
    /\ title_candidates = <<>>
    /\ title_winner = NoText
    /\ title = NoText
    /\ all_candidates = <<>>
    /\ font_analysis = NoAnalysis
    /\ levels = <<>>
    /\ classified_headings = <<>>
    /\ outline = <<>>
    /\ result \in OutlineData
    /\ saved = NoResult
    /\ log = <<>>

\* self.json_generator.save_outline(result, output_file) (main.py line 64):
\* saved is the cleaned_data written to the file
SaveOutline ==
    /\ pc = "done"
    /\ saved' = _validate_and_clean(result)
    /\ pc' = "saved"
    /\ UNCHANGED <<config, batch, pdf, ocr_info, doc, title_candidates, title_winner, title, all_candidates, font_analysis,
                   levels, classified_headings, outline, result, log>>

NextSave == SaveOutline

SpecSave == InitSave /\ [][NextSave]_vars

(***************************************************************************)
(* ocr_handler.py: OCRHandler._merge_nearby_blocks on the tokens of one    *)
(* page (line 143).  doc holds the page before and after the merge; log    *)
(* keeps the tokens handed in.                                             *)
(***************************************************************************)
\* sorted(text_blocks, key=lambda x: (x['bbox'][1], x['bbox'][0])) and
\* line_blocks.sort(key=lambda x: x['bbox'][0]): both stable, so the order by
\* (top, left) is the order by top of the order by left
SortByLeft(blocks) ==
    LET sorted == SortPairs([i \in 1..Len(blocks) |-> <<blocks[i].bbox[1], blocks[i]>>])
    IN  [i \in 1..Len(sorted) |-> sorted[i][2]]
SortByTopAndLeft(blocks) ==
    LET sorted == SortPairs(TopPairs(SortByLeft(blocks)))
    IN  [i \in 1..Len(sorted) |-> sorted[i][2]]

\* next_left - current_right < avg_char_width * 2 (lines 204-210), with
\* avg_char_width = width / max(len(text), 1), multiplied out
CloseEnough(current_block, next_block) ==
    (next_block.bbox[1] - current_block.bbox[3]) * Max(Len(current_block.text), 1)
        < 2 * (current_block.bbox[3] - current_block.bbox[1])

\* faulty variant of MergedBlock: the size of the first block is kept
MergedBlockFirstSize(current_block, next_block) ==
    [current_block EXCEPT !.text = @ \o <<" ">> \o next_block.text,
                          !.bbox[3] = next_block.bbox[3]]

\* the merge of next_block into current_block (lines 212-214)
MergedBlock(current_block, next_block) ==
    [current_block EXCEPT !.text = @ \o <<" ">> \o next_block.text,
                          !.bbox[3] = next_block.bbox[3],
                          !.size = Max(@, next_block.size)]

\* the loop of _merge_line_blocks (lines 200-220)
RECURSIVE MergeInto(_, _)
MergeInto(current_block, rest) ==
    IF rest = <<>> THEN <<current_block>>
    ELSE IF CloseEnough(current_block, Head(rest))
    THEN MergeInto(MergedBlock(current_block, Head(rest)), Tail(rest))
    ELSE <<current_block>> \o MergeInto(Head(rest), Tail(rest))

_merge_line_blocks(line_blocks) ==
    IF Len(line_blocks) <= 1 THEN line_blocks
    ELSE LET sorted == SortByLeft(line_blocks)
         IN  MergeInto(Head(sorted), Tail(sorted))

\* the loop of _merge_nearby_blocks (lines 166-185); current_y is None as
\* long as current_line is empty
RECURSIVE MergeLines(_, _, _)
MergeLines(sorted_blocks, current_line, current_y) ==
    IF sorted_blocks = <<>>
    THEN IF current_line # <<>> THEN _merge_line_blocks(current_line) ELSE <<>>
    ELSE LET block == Head(sorted_blocks)
             block_y == block.bbox[2]
         IN  IF current_line = <<>>
             THEN MergeLines(Tail(sorted_blocks), <<block>>, block_y)
             ELSE IF Abs(block_y - current_y) < 10
             THEN MergeLines(Tail(sorted_blocks), Append(current_line, block), current_y)
             ELSE _merge_line_blocks(current_line)
                  \o MergeLines(Tail(sorted_blocks), <<block>>, block_y)

_merge_nearby_blocks(text_blocks) ==
    IF text_blocks = <<>> THEN text_blocks
    ELSE MergeLines(SortByTopAndLeft(text_blocks), <<>>, 0)

\* the tokens of a page as _ocr_image builds them (lines 130-138): up to
\* MaxBlocks words, each 10 wide and 10 high, at any of three left edges and
\* three tops
OcrTokens ==
    LET Words == {<<<<"a">>, 8>>, <<<<"b", "b">>, 12>>}
        Token(word, left, top) ==
            [text |-> word[1], font |-> <<"o","c","r","-","d","e","t","e","c","t","e","d">>, size |-> word[2], flags |-> 0,
             bbox |-> <<left, top, left + 10, top + 10>>, color |-> 0, confidence |-> 90]
    IN  SeqsUpTo({Token(word, left, top) : word \in Words, left \in {0, 12, 40},
                                           top \in {0, 9, 18}}, MaxBlocks)

InitMerge ==
    /\ config = DefaultConfig /\ NoBatch /\ NoFile
    /\ doc \in {[pages |-> <<Page(1, tokens)>>, total_pages |-> 1] : tokens \in OcrTokens}
    /\ pc = "ocr"
    /\ title_candidates = <<>>
    /\ title_winner = NoText
    /\ title = NoText
    /\ all_candidates = <<>>
    /\ font_analysis = NoAnalysis
    /\ levels = <<>>
    /\ classified_headings = <<>>
    /\ outline = <<>>
    /\ result = NoResult
    /\ saved = NoResult
    /\ log = <<>>

\* page_info['text_blocks'] = self._merge_nearby_blocks(page_info['text_blocks'])
MergeNearbyBlocks ==
    /\ pc = "ocr"
    /\ doc' = [doc EXCEPT !.pages[1].text_blocks = _merge_nearby_blocks(@)]
    /\ log' = Append(log, doc.pages[1].text_blocks)
    /\ pc' = "merged"
    /\ UNCHANGED <<config, batch, pdf, ocr_info, title_candidates, title_winner, title, all_candidates, font_analysis,
                   levels, classified_headings, outline, result, saved>>

NextMerge == MergeNearbyBlocks

SpecMerge == InitMerge /\ [][NextMerge]_vars


(***************************************************************************)
(* Native extraction and the OCR fallback (pdf_processor.py lines 39-48    *)
(* and 65-195).  A PDF file is what the libraries make of it: per page     *)
(* the spans and the text PyMuPDF gives and the blocks and the text        *)
(* pdfplumber gives, where PyMuPDF raises, whether pdfplumber raises, and  *)
(* how OCR ends.                                                           *)
(***************************************************************************)
MIN_TEXT_LENGTH == 100
MIN_TEXT_BLOCKS == 10

PageInfo(page_number, text_blocks, raw_text) ==
    [page_number |-> page_number, text_blocks |-> text_blocks, raw_text |-> raw_text]

\* the records the PyMuPDF pass appends (lines 75-106) before it ends or
\* raises: all of them when it ends, fewer when fitz.open or a page raises
FitzPages(file) ==
    [i \in 1..file.fitz_appended |-> PageInfo(i, file.pages[i].spans, file.pages[i].text)]

\* the records the pdfplumber pass appends (lines 119-154)
PlumberPages(file) ==
    [i \in 1..Len(file.pages) |-> PageInfo(i, file.pages[i].chars, file.pages[i].extract_text)]

\* _extract_native_pdf: the doc_info it returns, or that it raises
_extract_native_pdf(file) ==
    IF ~file.fitz_raises
    THEN [raised |-> FALSE,
          doc_info |-> [pages |-> FitzPages(file), total_pages |-> Len(file.pages)]]
    ELSE IF file.plumber_raises
    THEN [raised |-> TRUE,
          doc_info |-> [pages |-> FitzPages(file),
                        total_pages |-> Len(file.pages)]]
    ELSE [raised |-> FALSE,
          doc_info |-> [pages |-> FitzPages(file) \o PlumberPages(file),
                        total_pages |-> Len(file.pages)]]

\* faulty variant of _needs_ocr: the text blocks are not counted
NeedsOcrTextOnly(doc_info) ==
    \/ doc_info.pages = <<>>
    \/ SumSeq([i \in 1..Len(doc_info.pages) |-> Len(strip(doc_info.pages[i].raw_text))])
          < MIN_TEXT_LENGTH

\* _needs_ocr (lines 171-195)
_needs_ocr(doc_info) ==
    \/ doc_info.pages = <<>>
    \/ SumSeq([i \in 1..Len(doc_info.pages) |-> Len(strip(doc_info.pages[i].raw_text))])
          < MIN_TEXT_LENGTH
    \/ SumSeq([i \in 1..Len(doc_info.pages) |-> Len(doc_info.pages[i].text_blocks)])
          < MIN_TEXT_BLOCKS

\* the None that _extract_with_ocr returns
NoOcrInfo == [none |-> TRUE]

\* OCRHandler.extract_text (ocr_handler.py lines 39-86) under
\* _extract_with_ocr (lines 163-169): None when OCR is unavailable or raises,
\* else one record per page with the recognised line
_extract_with_ocr(file) ==
    IF file.ocr # "result" THEN NoOcrInfo
    ELSE LET line == [text |-> T_CAPS,
                      font |-> <<"o","c","r","-","d","e","t","e","c","t","e","d">>,
                      size |-> 14, flags |-> 0, bbox |-> <<50, 20, 120, 40>>, color |-> 0,
                      confidence |-> 90]
         IN  [pages |-> [i \in 1..Len(file.pages) |-> PageInfo(i, <<line>>, T_CAPS \o <<"\n">>)],
              total_pages |-> Len(file.pages)]

\* the PDF files: up to two pages, each with 0, 1, 5, 9 or 10 bold spans and
\* a text of up to 100 characters, with or without a final newline
Pdfs ==
    LET Spans(n) == [i \in 1..n |-> Block(T_OVERVIEW, 16, 16, 50, 20 * i)]
        Chars(n) == [i \in 1..n |-> [Spans(n)[i] EXCEPT !.flags = 0]]
        PdfPage(n, text) ==
            [spans |-> Spans(n), text |-> text, chars |-> Chars(n), extract_text |-> text]
        PdfPages == {PdfPage(10, Repeat("x", 100)),
                     PdfPage(10, Repeat("x", 99) \o <<"\n">>),
                     PdfPage(9, Repeat("x", 100)),
                     PdfPage(5, Repeat("x", 50)),
                     PdfPage(1, Repeat("x", 5)),
                     PdfPage(0, <<>>)}
    IN  {file \in [pages : SeqsUpTo(PdfPages, 2), fitz_raises : BOOLEAN,
                   fitz_appended : 0..2, plumber_raises : BOOLEAN,
                   ocr : {"unavailable", "raises", "result"}] :
            /\ ~file.fitz_raises => file.fitz_appended = Len(file.pages)
            /\ file.fitz_raises => file.fitz_appended <= Max(Len(file.pages) - 1, 0)}

\* extract_outline is called on a file (lines 39-41)
InitExtract ==
    /\ config = DefaultConfig /\ NoBatch
    /\ pdf \in Pdfs
    /\ ocr_info = NoResult
    /\ doc = NoPagesDocument
    /\ pc = "open"
    /\ title_candidates = <<>>
    /\ title_winner = NoText
    /\ title = NoText
    /\ all_candidates = <<>>
    /\ font_analysis = NoAnalysis
    /\ levels = <<>>
    /\ classified_headings = <<>>
    /\ outline = <<>>
    /\ result = NoResult
    /\ saved = NoResult
    /\ log = <<>>

\* doc_info = self._extract_native_pdf(pdf_path) (line 41); an exception of
\* the pdfplumber pass is re-raised by extract_outline (lines 61-63)
ExtractNativePdf ==
    /\ pc = "open"
    /\ LET native == _extract_native_pdf(pdf)
       IN  /\ doc' = native.doc_info
           /\ pc' = IF native.raised THEN "raised" ELSE "native"
    /\ UNCHANGED <<config, batch, pdf, ocr_info, title_candidates, title_winner, title,
                   all_candidates, font_analysis, levels, classified_headings, outline,
                   result, saved, log>>

\* if self._needs_ocr(doc_info): ... if ocr_info: doc_info = ocr_info
\* (lines 44-48)
OcrFallback ==
    /\ pc = "native"
    /\ IF _needs_ocr(doc)
       THEN /\ ocr_info' = _extract_with_ocr(pdf)
            /\ doc' = IF ocr_info' # NoOcrInfo THEN ocr_info' ELSE doc
       ELSE UNCHANGED <<ocr_info, doc>>
    /\ pc' = "start"
    /\ UNCHANGED <<config, batch, pdf, title_candidates, title_winner, title,
                   all_candidates, font_analysis, levels, classified_headings, outline,
                   result, saved, log>>

NextExtract == ExtractNativePdf \/ OcrFallback \/ ExtractTitle \/ DetectHeadings \/ Return

SpecExtract == InitExtract /\ [][NextExtract]_vars

(***************************************************************************)
(* The batch: OutlineExtractor.process_pdfs (main.py lines 35-85) and the  *)
(* summary report run.py writes after it (run.py lines 134-147).  An       *)
(* input file is its stem, whether extract_outline raises on it, the       *)
(* result it returns otherwise, and how the successive calls of            *)
(* save_outline for its output file end.  output_dir maps the names of     *)
(* the files of the output directory to their JSON contents.               *)
(***************************************************************************)
ErrorTitle == <<"E","r","r","o","r",":"," ","C","o","u","l","d"," ","n","o","t"," ",
                "p","r","o","c","e","s","s"," ","d","o","c","u","m","e","n","t">>

\* output_dir / f"{pdf_file.stem}.json" and output_dir / 'processing_summary.json'
JsonFile(stem) == <<stem, "json">>
SummaryFile == JsonFile("processing_summary")

\* the directory after a file has been written
Written(dir, name, data) ==
    [n \in DOMAIN dir \cup {name} |-> IF n = name THEN data ELSE dir[n]]

\* save_outline (json_generator.py lines 20-43): the cleaned data is written,
\* or the call raises and the directory is as before
save_outline(dir, outline_data, output_path, outcome) ==
    IF outcome = "raises" THEN [raised |-> TRUE, output_dir |-> dir]
    ELSE [raised |-> FALSE,
          output_dir |-> Written(dir, output_path, _validate_and_clean(outline_data))]

\* error_result (main.py lines 79-83); str(e) is left abstract
ErrorResult == [title |-> ErrorTitle, outline |-> <<>>, error |-> <<"e">>]

\* faulty variant of ProcessedPdf: the except branch writes no output
ProcessedPdfNoErrorOutput(dir, pdf_file) ==
    IF pdf_file.raises THEN [raised |-> FALSE, output_dir |-> dir]
    ELSE LET first == save_outline(dir, pdf_file.result, JsonFile(pdf_file.stem),
                                   pdf_file.saves[1])
         IN  [raised |-> FALSE, output_dir |-> first.output_dir]

\* one pass of the loop body (main.py lines 55-85): whether an exception
\* leaves it, and the directory after it
ProcessedPdf(dir, pdf_file) ==
    LET output_file == JsonFile(pdf_file.stem)
        first == save_outline(dir, pdf_file.result, output_file, pdf_file.saves[1])
    IN  IF pdf_file.raises
        THEN save_outline(dir, ErrorResult, output_file, pdf_file.saves[1])
        ELSE IF first.raised
        THEN save_outline(dir, ErrorResult, output_file, pdf_file.saves[2])
        ELSE first

RECURSIVE SumOver(_, _)
SumOver(S, f) ==
    IF S = {} THEN 0
    ELSE LET x == CHOOSE y \in S : TRUE
         IN  f[x] + SumOver(S \ {x}, f)

\* generate_summary_report (json_generator.py lines 124-190): the summary it
\* writes.  glob gives the files in no order of its own, so that `files` is
\* the set of the file_info records; the average is kept as the fraction the
\* code rounds.
generate_summary_report(dir) ==
    LET json_files == {name \in DOMAIN dir : name[2] = "json"}
        outline_of == [name \in json_files |-> Get(dir[name], "outline", <<>>)]
        LevelCount(name, level) ==
            Cardinality({k \in 1..Len(outline_of[name]) :
                            Get(outline_of[name][k], "level", None) = level})
        total_headings == SumOver(json_files, [name \in json_files |-> Len(outline_of[name])])
    IN  [total_files_processed |-> Cardinality(json_files),
         files |-> {[filename |-> name,
                     title |-> Get(dir[name], "title", <<"U","n","k","n","o","w","n">>),
                     total_headings |-> Len(outline_of[name]),
                     heading_levels |-> [level \in {"H1", "H2", "H3"} |-> LevelCount(name, level)],
                     has_error |-> "error" \in DOMAIN dir[name]] : name \in json_files},
         statistics |->
            [total_headings |-> total_headings,
             avg_headings_per_file |-> IF json_files # {}
                                       THEN <<total_headings, Cardinality(json_files)>>
                                       ELSE <<0, 1>>,
             heading_levels |->
                [level \in {"H1", "H2", "H3"} |->
                    SumOver(json_files, [name \in json_files |-> LevelCount(name, level)])]]]

\* the input directories: up to two PDF files
PdfFiles ==
    LET Entry(level) == [level |-> level, text |-> T_OVERVIEW, page |-> 1, position |-> 20]
        Results == {[title |-> T_CAPS, outline |-> entries] :
                        entries \in {<<>>, <<Entry("H1")>>, <<Entry("H1"), Entry("H2")>>}}
        Saves == {<<"ok", "ok">>, <<"raises", "ok">>, <<"raises", "raises">>}
        Files(stem) == [stem : {stem}, raises : BOOLEAN, result : Results, saves : Saves]
    IN  {<<>>}
        \cup {<<file>> : file \in Files("a") \cup Files("b")}
        \cup {<<first, second>> : first \in Files("a"), second \in Files("b")}
        \cup {<<first, second>> : first \in Files("b"), second \in Files("a")}

InitBatch ==
    /\ config = DefaultConfig /\ NoFile /\ NoBatch
    /\ doc = NoPagesDocument
    /\ pc = "run"
    /\ title_candidates = <<>>
    /\ title_winner = NoText
    /\ title = NoText
    /\ all_candidates = <<>>
    /\ font_analysis = NoAnalysis
    /\ levels = <<>>
    /\ classified_headings = <<>>
    /\ outline = <<>>
    /\ result = NoResult
    /\ saved = NoResult
    /\ log = <<>>

\* pdf_files = list(input_dir.glob("*.pdf")) (main.py line 45)
FindPdfFiles ==
    /\ pc = "run"
    /\ pdf_files' \in PdfFiles
    /\ pc' = "batch"
    /\ UNCHANGED <<config, output_dir, processed, pdf, ocr_info, doc, title_candidates,
                   title_winner, title, all_candidates, font_analysis, levels,
                   classified_headings, outline, result, saved, log>>

\* one pass of the loop (main.py lines 54-85); an exception that leaves it
\* ends process_pdfs and run() exits (lines 93-98)
ProcessPdf ==
    /\ pc = "batch"
    /\ processed < Len(pdf_files)
    /\ LET pass == ProcessedPdf(output_dir, pdf_files[processed + 1])
       IN  /\ output_dir' = pass.output_dir
           /\ IF pass.raised
              THEN pc' = "exit" /\ processed' = processed
              ELSE pc' = "batch" /\ processed' = processed + 1
    /\ UNCHANGED <<config, pdf_files, pdf, ocr_info, doc, title_candidates, title_winner,
                   title, all_candidates, font_analysis, levels, classified_headings,
                   outline, result, saved, log>>

\* json_generator.generate_summary_report(Path(Config.OUTPUT_DIR))
\* (run.py line 143), after the loop has ended
GenerateSummaryReport ==
    /\ pc = "batch"
    /\ processed = Len(pdf_files)
    /\ output_dir' = Written(output_dir, SummaryFile, generate_summary_report(output_dir))
    /\ log' = Append(log, output_dir')
    /\ pc' = "summarised"
    /\ UNCHANGED <<config, pdf_files, processed, pdf, ocr_info, doc, title_candidates,
                   title_winner, title, all_candidates, font_analysis, levels,
                   classified_headings, outline, result, saved>>

\* the program is run again on the same directories
RunAgain ==
    /\ pc = "summarised"
    /\ Len(log) < MaxCalls
    /\ processed' = 0
    /\ pc' = "batch"
    /\ UNCHANGED <<config, pdf_files, output_dir, pdf, ocr_info, doc, title_candidates,
                   title_winner, title, all_candidates, font_analysis, levels,
                   classified_headings, outline, result, saved, log>>

NextBatch == FindPdfFiles \/ ProcessPdf \/ GenerateSummaryReport \/ RunAgain

SpecBatch == InitBatch /\ [][NextBatch]_vars

\* a pass of the loop as the loop's own variables show it: the next file is
\* reached or an exception has left the loop
LoopPass ==
    /\ pc = "batch"
    /\ processed < Len(pdf_files)
    /\ \/ pc' = "batch" /\ processed' = processed + 1
       \/ pc' = "exit" /\ processed' = processed

\* the for loop does not stop between two passes
FairSpecBatch == SpecBatch /\ WF_<<pc, processed>>(LoopPass)

(***************************************************************************)
(* extract_outline followed by save_outline on its result (main.py lines   *)
(* 60-64), for first pages whose title span is short, exactly              *)
(* MAX_TITLE_LENGTH long, or longer.                                       *)
(***************************************************************************)
InitPipeline ==
    /\ doc \in {[pages |-> <<Page(1, <<Block(text, size, flags, left, 20)>>)>>,
                 total_pages |-> 1] :
                    text \in {T_OVERVIEW, T_CAPS, Repeat("a", MAX_TITLE_LENGTH), T_TOO_LONG,
                              Repeat("a", 150) \o <<" ">> \o Repeat("b", 60)},
                    size \in {10, 24}, flags \in Flags, left \in Lefts}
    /\ InitLocals

NextPipeline == ExtractTitle \/ DetectHeadings \/ Return \/ SaveOutline

SpecPipeline == InitPipeline /\ [][NextPipeline]_vars

(***************************************************************************)
(* Properties                                                              *)
(***************************************************************************)
Detected == pc \in {"detected", "done"}
Candidates == 1..Len(all_candidates)
H1T == font_analysis.h1_threshold
H2T == font_analysis.h2_threshold
H3T == font_analysis.h3_threshold
HeadingLevels == {"H1", "H2", "H3"}
LevelGiving == {"numbered", "sub_numbered", "sub_sub_numbered", "section_marker"}
HasLevelGiving(i) ==
    \E k \in 1..Len(all_candidates[i].features.patterns) :
        all_candidates[i].features.patterns[k] \in LevelGiving
\* the outline holds an entry for candidate i with the given level
HasEntry(i, level) ==
    \E k \in 1..Len(outline) :
        /\ outline[k].level = level
        /\ outline[k].text = all_candidates[i].text
        /\ outline[k].page = all_candidates[i].page
        /\ outline[k].position = all_candidates[i].features.position
\* the outline holds no entry that could come from candidate i
HasNoEntry(i) ==
    \A k \in 1..Len(outline) :
        ~ /\ outline[k].text = all_candidates[i].text
          /\ outline[k].page = all_candidates[i].page
          /\ outline[k].position = all_candidates[i].features.position

\* C1 (level soundness): every entry of the outline returned by
\* detect_headings has level H1, H2 or H3, and the outline holds exactly one
\* entry per candidate for which _determine_heading_level gave a level: a
\* candidate without a level produces no entry.
C1_LevelSoundness ==
    Detected =>
        /\ \A k \in 1..Len(outline) : outline[k].level \in HeadingLevels
        /\ Len(outline) = Cardinality({i \in Candidates : levels[i].level # None})
        /\ \A i \in Candidates : levels[i].level # None => HasEntry(i, levels[i].level)

\* a run in which one candidate got a level and another one got none
C1_Witness ==
    /\ Detected
    /\ outline # <<>>
    /\ \E i \in Candidates : levels[i].level = None /\ HasNoEntry(i)

\* C2 (ordering): in the returned outline consecutive entries are
\* non-decreasing in page, and entries of the same page are non-decreasing
\* in position.
C2_Ordering ==
    Detected =>
        \A k \in 1..(Len(outline) - 1) :
            \/ outline[k].page < outline[k+1].page
            \/ /\ outline[k].page = outline[k+1].page
               /\ outline[k].position <= outline[k+1].position

\* a run whose pages came in descending order and whose classified list had
\* a later span above an earlier one on the same page: the sort moved entries
C2_Witness ==
    /\ Detected
    /\ Len(outline) >= 3
    /\ \E k \in 1..(Len(classified_headings) - 1) :
          classified_headings[k].page > classified_headings[k+1].page
    /\ \E k \in 1..(Len(classified_headings) - 1) :
          /\ classified_headings[k].page = classified_headings[k+1].page
          /\ classified_headings[k].position > classified_headings[k+1].position

\* C3 (tier monotonicity): for every non-empty set of candidates the profile
\* returned by _analyze_font_sizes has h1_threshold >= h2_threshold >=
\* h3_threshold.
C3_TierMonotonicity ==
    (Detected /\ all_candidates # <<>>) => (H1T >= H2T /\ H2T >= H3T)

\* C4 (rule 1): every candidate whose trimmed text matches the simple
\* numbered pattern is assigned level H1, whatever its size, boldness and
\* the profile.
C4_NumberedIsH1 ==
    Detected =>
        \A i \in Candidates :
            match(NumberedRe, all_candidates[i].text) =>
                levels[i].level = "H1" /\ HasEntry(i, "H1")

\* C5 (rules 2 and 3): every candidate whose text matches sub_numbered is
\* assigned H2 and every candidate whose text matches sub_sub_numbered is
\* assigned H3, by the pattern rule, whatever its size, boldness and the
\* thresholds.
C5_SubNumberedLevels ==
    Detected =>
        \A i \in Candidates :
            /\ match(SubNumberedRe, all_candidates[i].text) =>
                  /\ levels[i].rule = "pattern"
                  /\ levels[i].level = "H2"
                  /\ HasEntry(i, "H2")
            /\ match(SubSubNumberedRe, all_candidates[i].text) =>
                  /\ levels[i].rule = "pattern"
                  /\ levels[i].level = "H3"
                  /\ HasEntry(i, "H3")

\* a bold sub-sub-numbered candidate of the largest size (its font-size tier
\* would be H1) that got H3
C5_Witness ==
    /\ Detected
    /\ \E i \in Candidates :
          /\ match(SubSubNumberedRe, all_candidates[i].text)
          /\ all_candidates[i].features.is_bold
          /\ all_candidates[i].features.font_size >= H1T
          /\ HasEntry(i, "H3")

\* the font-size tier of candidate i, read off the thresholds
TierOf(i) ==
    LET size == all_candidates[i].features.font_size
    IN  IF size >= H1T THEN "H1"
        ELSE IF size >= H2T THEN "H2"
        ELSE IF size >= H3T THEN "H3"
        ELSE None

C7_AllCapsOverride ==
    Detected =>
        \A i \in Candidates :
            (levels[i].rule = "font" /\ levels[i].styled # None) =>
                /\ (levels[i].styled = "H3" /\ levels[i].level # "H3") =>
                      /\ levels[i].level = "H2"
                      /\ In("all_caps", all_candidates[i].features.patterns)
                      /\ Len(all_candidates[i].text) < 50
                /\ (levels[i].styled = "H3" /\ Len(all_candidates[i].text) >= 50) =>
                      levels[i].level = "H3"
                /\ levels[i].styled \in {"H1", "H2"} => levels[i].level = levels[i].styled

\* C8 (drop policy): a candidate without font-size evidence (font_size <= 0)
\* that matches none of the level-giving patterns never becomes an outline
\* entry, whatever the profile derived from the other spans.
C8_DropPolicy ==
    Detected =>
        \A i \in Candidates :
            (all_candidates[i].features.font_size <= 0 /\ ~HasLevelGiving(i)) =>
                levels[i].level = None /\ HasNoEntry(i)

\* C9 (determinism and purity): two calls on identical documents, in any
\* order and with calls on other documents in between, return the same
\* title and outline.
C9_Determinism ==
    \A i \in 1..Len(log) : \A j \in 1..Len(log) :
        log[i].doc = log[j].doc => log[i].result = log[j].result

\* three calls: the first and the third on the same document, the second on
\* another one, each returning a non-empty outline
C9_Witness ==
    /\ Len(log) = 3
    /\ log[1].doc = log[3].doc
    /\ log[2].doc # log[1].doc
    /\ log[1].result.outline # <<>>
    /\ log[2].result.outline # <<>>
    /\ log[3].result = log[1].result

\* the candidate gate of _find_heading_candidates, from its definition: the
\* trimmed text has 2 to MAX_HEADING_LENGTH characters and the score is at
\* least MIN_HEADING_SCORE
PassesGate(block) ==
    LET text == strip(block.text)
    IN  /\ Len(text) >= 2
        /\ Len(text) <= MAX_HEADING_LENGTH
        /\ BlockScore(block, text, BlockFeatures(block, text)) >= MIN_HEADING_SCORE
AllBlocks ==
    UNION {{doc.pages[p].text_blocks[b] : b \in 1..Len(doc.pages[p].text_blocks)} :
              p \in 1..Len(doc.pages)}

\* C10 (empty-page outcome): for a document whose pages carry no span,
\* detect_headings returns the empty list and extract_title returns
\* "Untitled Document"; whenever no span of any page passes the candidate
\* gate the outline is empty; neither case raises.
C10_EmptyPageOutcome ==
    /\ (doc.pages # <<>>) => pc # "raised"
    /\ (Detected /\ \A b \in AllBlocks : ~PassesGate(b)) => outline = <<>>
    /\ (pc = "done" /\ AllBlocks = {}) =>
          result = [title |-> UntitledDocument, outline |-> <<>>]

\* a finished run on a document of two pages without any span
C10_Witness ==
    /\ pc = "done"
    /\ Len(doc.pages) = 2
    /\ AllBlocks = {}
    /\ result.title = UntitledDocument
    /\ result.outline = <<>>

\* C11 (truncation idempotence): cleaning a cleaned title gives the same
\* string: of the values returned by successive _clean_title calls, the
\* second equals the first, for titles longer than MAX_TITLE_LENGTH and for
\* titles with stacked prefixes too.
C11_CleanTitleIdempotent ==
    Len(log) >= 2 => log[2] = log[1]

\* extract_title has returned
Titled == pc \in {"titled", "detected", "done"}
FirstBlocks == IF doc.pages = <<>> THEN <<>> ELSE Get(doc.pages[1], "text_blocks", <<>>)

\* C12 (title sentinel): extract_title does not raise and does not return the
\* empty string; when no heuristic proposed a candidate, or the winning
\* string is empty after whitespace collapse and prefix stripping, it returns
\* exactly "Untitled Document".
C12_TitleSentinel ==
    /\ doc.pages # <<>> => pc # "raised"
    /\ Titled =>
        /\ title # <<>>
        /\ title # NoText
        /\ title_candidates = <<>> => title = UntitledDocument
        /\ (/\ title_winner # NoText
            /\ RemovePrefixes(join(split(title_winner)), prefixes_to_remove) = <<>>)
              => title = UntitledDocument

\* a first page with spans none of which any heuristic proposes
NoTitleCandidate ==
    /\ Titled
    /\ FirstBlocks # <<>>
    /\ title_candidates = <<>>
    /\ title = UntitledDocument

\* a first page whose winning span is only "Title:"
C12_Witness ==
    /\ Titled
    /\ title_winner = T_TITLE_ONLY
    /\ title = UntitledDocument

\* C13 (well-formed result on malformed input): for a document whose
\* extraction yields no pages at all, extract_outline does not fail: it
\* returns the title "Untitled Document" and an empty outline.
C13_ResultOnNoPages ==
    (doc.pages = <<>> /\ pc # "start") =>
        /\ pc = "done"
        /\ result = [title |-> UntitledDocument, outline |-> <<>>]

\* an entry that meets the output contract: level H1, H2 or H3, a text that
\* is not empty or blank, and a page of at least 1
MeetsContract(entry) ==
    /\ "level" \in DOMAIN entry /\ entry.level \in HeadingLevels
    /\ "text" \in DOMAIN entry /\ \E i \in 1..Len(entry.text) : entry.text[i] # " "
    /\ "page" \in DOMAIN entry /\ entry.page >= 1
KeptEntries == SelectSeq(result.outline, MeetsContract)
\* the saved text of an entry: the text with its whitespace collapsed, cut
\* to MAX_SAVED_TEXT characters
IsSavedTextOf(text, entry) ==
    LET collapsed == join(split(entry.text))
    IN  \/ text = collapsed /\ Len(collapsed) <= MAX_SAVED_TEXT
        \/ /\ Len(collapsed) > MAX_SAVED_TEXT
           /\ Len(text) = MAX_SAVED_TEXT
           /\ SubSeq(text, 1, MAX_SAVED_TEXT - 3) = SubSeq(collapsed, 1, MAX_SAVED_TEXT - 3)

\* C14 (output contract of the saved file): every entry written by
\* save_outline has exactly the fields level, text and page, with level H1,
\* H2 or H3, a non-empty text and a page >= 1; the entries written are the
\* entries of the outline handed in that meet this contract, in the same
\* order, and every other entry is dropped.
C14_SavedOutlineContract ==
    pc = "saved" =>
        /\ \A k \in 1..Len(saved.outline) :
              /\ DOMAIN saved.outline[k] = {"level", "text", "page"}
              /\ saved.outline[k].level \in HeadingLevels
              /\ saved.outline[k].text # <<>>
              /\ saved.outline[k].page >= 1
        /\ Len(saved.outline) = Len(KeptEntries)
        /\ \A k \in 1..Len(KeptEntries) :
              /\ saved.outline[k].level = KeptEntries[k].level
              /\ saved.outline[k].page = KeptEntries[k].page
              /\ IsSavedTextOf(saved.outline[k].text, KeptEntries[k])

\* an outline of three entries of which the middle one has a negative page:
\* it is dropped and the other two are written in their order
C14_Witness ==
    /\ pc = "saved"
    /\ Len(result.outline) = 3
    /\ "page" \in DOMAIN result.outline[2] /\ result.outline[2].page < 0
    /\ Len(saved.outline) = 2
    /\ saved.outline[1].page = 3
    /\ saved.outline[2].page = 2

\* the texts proposed by a strategy
ProposedBy(strategy) ==
    {title_candidates[k][2] : k \in {j \in 1..Len(title_candidates) :
                                        title_candidates[j][1] = strategy}}
Sized == {i \in 1..Len(FirstBlocks) : FirstBlocks[i].size > 0}
\* the spans whose size is within 0.1 of the largest size of the page
Largest == {i \in 1..Len(FirstBlocks) :
               \A j \in Sized : 10 * (FirstBlocks[j].size - FirstBlocks[i].size) < 1}

\* C15 (font-size title heuristic): on a first page with a span of positive
\* size, _find_by_font_size returns the text of a span whose size is within
\* 0.1 of the largest size of the page and whose top is the smallest among
\* these spans: never a smaller span.
C15_FontSizeHeuristic ==
    (Titled /\ Sized # {}) =>
        \E i \in Largest :
            /\ ProposedBy("font_size") = {FirstBlocks[i].text}
            /\ \A j \in Largest : FirstBlocks[i].bbox[2] <= FirstBlocks[j].bbox[2]

\* a page of a size-10 span above a size-24 span: the size-24 span is returned
C15_Witness ==
    /\ Titled
    /\ Len(FirstBlocks) = 2
    /\ FirstBlocks[1].size = 10 /\ FirstBlocks[1].bbox[2] = 20
    /\ FirstBlocks[2].size = 24 /\ FirstBlocks[2].bbox[2] = 150
    /\ FirstBlocks[1].text # FirstBlocks[2].text
    /\ ProposedBy("font_size") = {FirstBlocks[2].text}

\* the distinct candidate texts, the weight the claim gives each strategy,
\* and the total of a text
ProposedTexts == {title_candidates[k][2] : k \in 1..Len(title_candidates)}
ClaimedWeight(strategy) ==
    IF strategy = "font_size" THEN 3
    ELSE IF strategy = "position" THEN 2
    ELSE IF strategy = "style" THEN 2
    ELSE 1
StrategyRank(strategy) ==
    CHOOSE r \in 1..4 : <<"font_size", "position", "style", "top">>[r] = strategy
RECURSIVE WeightSum(_, _)
WeightSum(text, k) ==
    IF k = 0 THEN 0
    ELSE WeightSum(text, k - 1)
         + (IF title_candidates[k][2] = text THEN ClaimedWeight(title_candidates[k][1]) ELSE 0)
Total(text) == WeightSum(text, Len(title_candidates)) + TextAdjustment(text)
FirstProposal(text) ==
    CHOOSE k \in 1..Len(title_candidates) :
        /\ title_candidates[k][2] = text
        /\ \A j \in 1..(k - 1) : title_candidates[j][2] # text

\* C16 (title merge): the text returned by _select_best_candidate is a
\* candidate text whose total (the weights of the strategies that proposed
\* it, 3, 2, 2 and 1, plus its adjustments) is the highest, and among the
\* texts with the highest total it is the one proposed first in the order
\* font size, position, style, top.
C16_TitleMerge ==
    (Titled /\ title_candidates # <<>>) =>
        /\ \A j, k \in 1..Len(title_candidates) :
              j < k => StrategyRank(title_candidates[j][1]) < StrategyRank(title_candidates[k][1])
        /\ title_winner \in ProposedTexts
        /\ \A other \in ProposedTexts \ {title_winner} :
              \/ Total(other) < Total(title_winner)
              \/ /\ Total(other) = Total(title_winner)
                 /\ FirstProposal(title_winner) < FirstProposal(other)

\* two texts with the same total, one of them proposed by two strategies:
\* the text proposed first wins
C16_Witness ==
    /\ Titled
    /\ \E other \in ProposedTexts \ {title_winner} :
          /\ Total(other) = Total(title_winner)
          /\ FirstProposal(title_winner) < FirstProposal(other)
          /\ \E j, k \in 1..Len(title_candidates) :
                j # k /\ title_candidates[j][2] = other /\ title_candidates[k][2] = other

\* the distinct positive font sizes of the candidate pool, and the largest
\* size of a non-empty set of sizes
PoolSizes == {all_candidates[i].features.font_size : i \in Candidates} \ {0}
Largest1(S) == CHOOSE x \in S : \A y \in S : y <= x
Profile(h1, h2, h3) == H1T = h1 /\ H2T = h2 /\ H3T = h3

\* C17 (tier derivation): with S the distinct positive sizes of the pool in
\* descending order, _analyze_font_sizes returns (S[0], S[1], S[2]) for three
\* or more sizes, (S[0], S[1], S[1] - 1) for two, (S[0], max(S[0] - 2, 10),
\* max(S[0] - 4, 8)) for one, and (16, 14, 12) for none.
C17_TierDerivation ==
    (Detected /\ all_candidates # <<>>) =>
        LET S == PoolSizes
            s0 == Largest1(S)
            s1 == Largest1(S \ {s0})
            s2 == Largest1(S \ {s0, s1})
        IN  /\ Cardinality(S) >= 3 => Profile(s0, s1, s2)
            /\ Cardinality(S) = 2 => Profile(s0, s1, s1 - 1)
            /\ Cardinality(S) = 1 =>
                  Profile(s0, IF s0 - 2 > 10 THEN s0 - 2 ELSE 10, IF s0 - 4 > 8 THEN s0 - 4 ELSE 8)
            /\ S = {} => Profile(16, 14, 12)

\* a pool of three candidates of three distinct sizes
C17_Witness ==
    /\ Detected
    /\ Len(all_candidates) = 3
    /\ PoolSizes = {16, 13, 2}
    /\ Profile(16, 13, 2)

\* the other cases of the derivation
TwoSizes == Detected /\ Cardinality(PoolSizes) = 2 /\ Len(all_candidates) = 3
OneSize == Detected /\ PoolSizes = {16} /\ Profile(16, 14, 12) /\ Len(all_candidates) = 2
NoSize == Detected /\ all_candidates # <<>> /\ PoolSizes = {} /\ Profile(16, 14, 12)

\* the score the gate gives a span, and the gate itself
ClaimedScore(block) ==
    LET text == strip(block.text)
        patterns == _check_text_patterns(text)
    IN    (IF (block.flags \div 16) % 2 = 1 THEN 2 ELSE 0)
        + (IF block.size > 12 THEN 1 ELSE 0)
        + Cardinality({patterns[k] : k \in 1..Len(patterns)})
        + (IF block.bbox[1] < 100 THEN 1 ELSE 0)
        + (IF Len(text) >= 5 /\ Len(text) <= 80 THEN 1 ELSE 0)
ClaimedGate(block) ==
    LET length == Len(strip(block.text))
    IN  /\ length >= 2
        /\ length <= MAX_HEADING_LENGTH
        /\ ClaimedScore(block) >= MIN_HEADING_SCORE
\* candidate i was made from the span
CandidateOf(i, block, page_number) ==
    /\ all_candidates[i].text = strip(block.text)
    /\ all_candidates[i].page = page_number
    /\ all_candidates[i].features.font_size = block.size
    /\ all_candidates[i].features.is_bold = ((block.flags \div 16) % 2 = 1)
    /\ all_candidates[i].features.left_margin = block.bbox[1]
    /\ all_candidates[i].features.position = block.bbox[2]
\* the spans of the document: (index of the page, index of the span)
Spans == {x \in (1..Len(doc.pages)) \X (1..MaxBlocks) : x[2] <= Len(doc.pages[x[1]].text_blocks)}
SpanBlock(x) == doc.pages[x[1]].text_blocks[x[2]]

\* C18 (candidate gate): a span is a heading candidate if and only if its
\* trimmed text has 2 to MAX_HEADING_LENGTH characters and its score (2 if
\* bold, 1 if larger than 12, 1 per pattern matched, 1 if its left edge is
\* below 100, 1 if it has 5 to 80 characters) is at least MIN_HEADING_SCORE;
\* the pool holds one candidate per such span, whatever the other spans are.
C18_CandidateGate ==
    pc = "detected" =>
        LET passing == {x \in Spans : ClaimedGate(SpanBlock(x))}
        IN  /\ \A x \in passing :
                  \E i \in Candidates :
                      /\ CandidateOf(i, SpanBlock(x), doc.pages[x[1]].page_number)
                      /\ all_candidates[i].score = ClaimedScore(SpanBlock(x))
            /\ \A x \in Spans \ passing :
                  \A i \in Candidates :
                      ~CandidateOf(i, SpanBlock(x), doc.pages[x[1]].page_number)
            /\ Len(all_candidates) = Cardinality(passing)

\* a page with a candidate that is not bold and scores exactly
\* MIN_HEADING_SCORE, next to bold candidates
C18_Witness ==
    /\ pc = "detected"
    /\ Len(all_candidates) = 3
    /\ \E i \in Candidates :
          /\ all_candidates[i].score = MIN_HEADING_SCORE
          /\ ~all_candidates[i].features.is_bold
          /\ all_candidates[i].features.left_margin < 100

\* a span one point short of the gate, left out of the pool
BelowGate ==
    /\ Detected
    /\ \E x \in Spans : /\ ClaimedScore(SpanBlock(x)) = MIN_HEADING_SCORE - 1
                        /\ Len(strip(SpanBlock(x).text)) >= 2
                        /\ Len(all_candidates) = Len(doc.pages[x[1]].text_blocks) - 1

\* the profile that a set of sizes gives, as <<h1, h2, h3>>
DerivedProfile(S) ==
    LET s0 == Largest1(S)
        s1 == Largest1(S \ {s0})
        s2 == Largest1(S \ {s0, s1})
    IN  IF S = {} THEN <<16, 14, 12>>
        ELSE IF Cardinality(S) = 1
        THEN <<s0, IF s0 - 2 > 10 THEN s0 - 2 ELSE 10, IF s0 - 4 > 8 THEN s0 - 4 ELSE 8>>
        ELSE IF Cardinality(S) = 2 THEN <<s0, s1, s1 - 1>>
        ELSE <<s0, s1, s2>>
\* the level of candidate i under a profile
LevelUnder(i, profile) ==
    _determine_heading_level(all_candidates[i].features.font_size,
                             all_candidates[i].features.patterns,
                             all_candidates[i].features,
                             profile[1], profile[2], profile[3])
\* the positive sizes of the candidates of one page
PageSizes(page_number) ==
    {all_candidates[i].features.font_size :
        i \in {j \in Candidates : all_candidates[j].page = page_number}} \ {0}

\* C19 (document-wide profile): the Font Tier Profile is the one derived
\* from the sizes of the candidates of all pages together, and every
\* candidate of every page is classified against these three thresholds: the
\* outline holds exactly the entries this gives.
C19_DocumentWideProfile ==
    (Detected /\ all_candidates # <<>>) =>
        /\ <<H1T, H2T, H3T>> = DerivedProfile(PoolSizes)
        /\ \A i \in Candidates :
              LevelUnder(i, DerivedProfile(PoolSizes)) # None =>
                  HasEntry(i, LevelUnder(i, DerivedProfile(PoolSizes)))
        /\ Len(outline) =
              Cardinality({i \in Candidates : LevelUnder(i, DerivedProfile(PoolSizes)) # None})

\* a size-16 span on page 1 and a size-13 span on page 2: the span of page 2
\* is H2, where the sizes of its own page would make it H1
C19_Witness ==
    /\ Detected
    /\ Len(all_candidates) = 2
    /\ all_candidates[1].page = 1 /\ all_candidates[1].features.font_size = 16
    /\ all_candidates[2].page = 2 /\ all_candidates[2].features.font_size = 13
    /\ LevelUnder(2, DerivedProfile(PageSizes(2))) = "H1"
    /\ HasEntry(2, "H2")
    /\ ~HasEntry(2, "H1")

\* the score _select_best_candidate gives a candidate text, and the part of
\* it that is neither strategy weight nor length adjustment: the bonus
ScoreOf(text) ==
    LET scores == FinalScores(title_candidates)
    IN  scores[CHOOSE k \in 1..Len(scores) : scores[k][1] = text][2]
LengthAdjustment(text) ==
    IF Len(strip(text)) >= 5 /\ Len(strip(text)) <= 100 THEN 1
    ELSE IF Len(strip(text)) > 200 THEN 0 - 2
    ELSE 0
BonusOf(text) == ScoreOf(text) - WeightSum(text, Len(title_candidates)) - LengthAdjustment(text)
MatchesPositive(text) ==
    CapitalWordsMatch(strip(text)) \/ AllCapsMatch(strip(text)) \/ MultipleWordsMatch(strip(text))
MatchesAvoid(text) == AvoidMatch(lower(strip(text)))

\* C20 (title-likeness bonus): a candidate text gets the bonus of 2 only if
\* it matches a positive pattern and no avoid pattern: not a text of digits,
\* not one starting with "page N", "chapter N" or "www.", not one holding
\* "@", and not one that matches no positive pattern.
C20_TitleLikenessBonus ==
    Titled =>
        \A text \in ProposedTexts :
            BonusOf(text) = 2 => (MatchesPositive(text) /\ ~MatchesAvoid(text))

\* C21 (title truncation): a _clean_title call on a title whose
\* whitespace-collapsed, prefix-stripped form has more than MAX_TITLE_LENGTH
\* characters returns the first MAX_TITLE_LENGTH characters of that form
\* followed by "..."; on a shorter non-empty form it returns the form itself.
C21_TitleTruncation ==
    [][LET stripped == RemovePrefixes(join(split(title)), prefixes_to_remove)
       IN  pc = "clean" =>
             /\ Len(stripped) > MAX_TITLE_LENGTH =>
                   title' = SubSeq(stripped, 1, MAX_TITLE_LENGTH) \o ELLIPSIS
             /\ (Len(stripped) <= MAX_TITLE_LENGTH /\ stripped # <<>>) =>
                   title' = stripped]_vars

\* the spans of the page after the merge, and the tokens handed in
MergedSpans == doc.pages[1].text_blocks
InputTokens == log[1]
\* span b starts less than twice the average character width of span a to
\* the right of a's right edge, a being the left one of the two
HorizontallyClose(a, b) ==
    /\ a.bbox[1] <= b.bbox[1]
    /\ (b.bbox[1] - a.bbox[3]) * Len(a.text) < 2 * (a.bbox[3] - a.bbox[1])
SameLine(a, b) ==
    a.bbox[2] - b.bbox[2] < 10 /\ b.bbox[2] - a.bbox[2] < 10

\* C22 (OCR reflow contract): among the spans that _merge_nearby_blocks
\* returns for a page, no two distinct spans have tops less than 10 apart
\* and a horizontal gap of less than twice the average character width of
\* the left one.
C22_NoMergeableSpansLeft ==
    pc = "merged" =>
        \A i, j \in 1..Len(MergedSpans) :
            i # j => ~(SameLine(MergedSpans[i], MergedSpans[j])
                       /\ HorizontallyClose(MergedSpans[i], MergedSpans[j]))

\* C23: the thresholds _analyze_font_sizes returns for a pool without a
\* positive size are the DEFAULT_H1/H2/H3_FONT_SIZE of the configuration the
\* detector was built with, so that overriding them changes the profile.
C23_FallbackFromConfig ==
    (Detected /\ all_candidates # <<>> /\ PoolSizes = {}) =>
        Profile(config.DEFAULT_H1_FONT_SIZE, config.DEFAULT_H2_FONT_SIZE,
                config.DEFAULT_H3_FONT_SIZE)

\* candidate j is a levelled candidate with the text, page and position of
\* candidate i
SameSpan(i, j) ==
    /\ levels[j].level # None
    /\ all_candidates[j].text = all_candidates[i].text
    /\ all_candidates[j].page = all_candidates[i].page
    /\ all_candidates[j].features.position = all_candidates[i].features.position
\* the outline entries carrying the text, page and position of candidate i
EntriesOf(i) ==
    {k \in 1..Len(outline) :
        /\ outline[k].text = all_candidates[i].text
        /\ outline[k].page = all_candidates[i].page
        /\ outline[k].position = all_candidates[i].features.position}

\* C24 (no deduplication): the outline has one entry per levelled candidate,
\* carrying its text, page and top: for every levelled candidate there are
\* as many entries with its text, page and top as there are levelled
\* candidates with them, and the outline is as long as the number of
\* levelled candidates.
C24_NoDeduplication ==
    Detected =>
        /\ Len(outline) = Cardinality({i \in Candidates : levels[i].level # None})
        /\ \A i \in Candidates :
              levels[i].level # None =>
                  Cardinality(EntriesOf(i)) = Cardinality({j \in Candidates : SameSpan(i, j)})

\* three levelled spans of one text: two of them at the same place of one
\* page, the third on another page
C24_Witness ==
    /\ Detected
    /\ Len(outline) = 3
    /\ \E i, j, k \in Candidates :
          /\ i # j /\ SameSpan(i, j)
          /\ levels[i].level # None /\ levels[k].level # None
          /\ all_candidates[k].text = all_candidates[i].text
          /\ all_candidates[k].page # all_candidates[i].page
          /\ Cardinality(EntriesOf(i)) = 2
          /\ Cardinality(EntriesOf(k)) = 1

\* the words of the returned spans, in the order of the spans, each with the
\* index of its span
RECURSIVE SlotsFrom(_)
SlotsFrom(k) ==
    IF k > Len(MergedSpans) THEN <<>>
    ELSE LET words == split(MergedSpans[k].text)
         IN  [q \in 1..Len(words) |-> [span |-> k, word |-> words[q]]] \o SlotsFrom(k + 1)
Slots == SlotsFrom(1)

\* C29 (the OCR merge conserves tokens): the input tokens can be laid on the
\* words of the returned spans one to one, such that every word is the text
\* of its token, the tokens of one span follow each other with
\* non-decreasing left edges, and the size of every span is the largest
\* size of its tokens.
C29_MergeConservesTokens ==
    pc = "merged" =>
        /\ Len(Slots) = Len(InputTokens)
        /\ \E token \in Permutations(1..Len(InputTokens)) :
              /\ \A q \in 1..Len(Slots) : Slots[q].word = InputTokens[token[q]].text
              /\ \A q \in 2..Len(Slots) :
                    Slots[q].span = Slots[q - 1].span =>
                        InputTokens[token[q - 1]].bbox[1] <= InputTokens[token[q]].bbox[1]
              /\ \A k \in 1..Len(MergedSpans) :
                    /\ \E q \in 1..Len(Slots) :
                          Slots[q].span = k /\ InputTokens[token[q]].size = MergedSpans[k].size
                    /\ \A q \in 1..Len(Slots) :
                          Slots[q].span = k => InputTokens[token[q]].size <= MergedSpans[k].size

\* a larger word handed over before the smaller word to its left: both end
\* in one span, the left one first, with the larger size
C29_Witness ==
    /\ pc = "merged"
    /\ Len(InputTokens) >= 2
    /\ InputTokens[1].text = <<"b", "b">> /\ InputTokens[1].bbox[1] = 12
    /\ InputTokens[2].text = <<"a">> /\ InputTokens[2].bbox[1] = 0
    /\ Len(MergedSpans) < Len(InputTokens)
    /\ \E k \in 1..Len(MergedSpans) :
          /\ MergedSpans[k].text = <<"a", " ", "b", "b">>
          /\ MergedSpans[k].size = 12

\* C26 (the extraction fallback keeps one entry per page): whenever
\* _extract_native_pdf has returned, doc_info holds one record per page of
\* the PDF, numbered 1..N in order, and total_pages is N.
C26_OneRecordPerPage ==
    pc = "native" =>
        /\ Len(doc.pages) = Len(pdf.pages)
        /\ \A i \in 1..Len(doc.pages) : doc.pages[i].page_number = i
        /\ doc.total_pages = Len(pdf.pages)

\* the totals of a doc_info: the characters of raw text, the characters left
\* when each page's raw text is stripped, and the text blocks
RawLength(d) == SumSeq([i \in 1..Len(d.pages) |-> Len(d.pages[i].raw_text)])
StrippedLength(d) == SumSeq([i \in 1..Len(d.pages) |-> Len(strip(d.pages[i].raw_text))])
TextBlocks(d) == SumSeq([i \in 1..Len(d.pages) |-> Len(d.pages[i].text_blocks)])
OcrAttempted == ocr_info # NoResult

\* the step after the native extraction attempts OCR exactly when the native
\* result has no pages, or total_text is below MIN_TEXT_LENGTH, or there are
\* fewer than MIN_TEXT_BLOCKS text blocks; doc_info becomes the OCR result
\* when there is one and stays the native result otherwise, also in the
\* steps that compute the title and the headings
OcrDecisionBy(total_text) ==
    /\ pc = "native" =>
         /\ OcrAttempted' <=> \/ doc.pages = <<>>
                              \/ total_text < MIN_TEXT_LENGTH
                              \/ TextBlocks(doc) < MIN_TEXT_BLOCKS
         /\ doc' = IF OcrAttempted' /\ ocr_info' # NoOcrInfo THEN ocr_info' ELSE doc
    /\ pc \in {"start", "titled", "detected"} => doc' = doc

\* C28 (OCR fallback decision), with the text measured as the code measures
\* it: OCR is attempted exactly when the native result has no pages, or its
\* pages' raw texts, each stripped of surrounding whitespace, have fewer than
\* MIN_TEXT_LENGTH characters in total, or it has fewer than MIN_TEXT_BLOCKS
\* text blocks; the OCR result replaces the native one only when OCR returns
\* one, and otherwise title and headings come from the unchanged native result.
C28_OcrDecision == [][OcrDecisionBy(StrippedLength(doc))]_vars

\* C28 as stated: the text is measured in characters of raw text
C28_OcrDecisionOnRawText == [][OcrDecisionBy(RawLength(doc))]_vars

\* a native result with ten blocks and a hundred characters of raw text, the
\* last one a newline: OCR was attempted without a result, and the outline
\* was computed from the native result
C28_Witness ==
    /\ pc = "done"
    /\ ocr_info = NoOcrInfo
    /\ TextBlocks(doc) >= MIN_TEXT_BLOCKS
    /\ RawLength(doc) >= MIN_TEXT_LENGTH
    /\ StrippedLength(doc) < MIN_TEXT_LENGTH
    /\ Len(result.outline) = TextBlocks(doc)

\* the output files that come from PDFs, and the summary of the last report
OutlineFiles == {JsonFile(pdf_files[i].stem) : i \in 1..Len(pdf_files)} \cap DOMAIN output_dir
Summary == output_dir[SummaryFile]

\* C27 (the summary counts only outlines): after every report,
\* total_files_processed is the number of output files that come from PDFs
\* and total_headings is the sum of their outline lengths.
C27_SummaryCountsOutlines ==
    pc = "summarised" =>
        /\ Summary.total_files_processed = Cardinality(OutlineFiles)
        /\ Summary.statistics.total_headings
              = SumOver(OutlineFiles, [name \in OutlineFiles |-> Len(output_dir[name].outline)])

\* the failures of a batch are extractions that raise and first saves that
\* raise: the save of the error result does not raise
ErrorSavesSucceed ==
    \A i \in 1..Len(pdf_files) :
        IF pdf_files[i].raises THEN pdf_files[i].saves[1] = "ok"
        ELSE pdf_files[i].saves[1] = "raises" => pdf_files[i].saves[2] = "ok"
Failing(pdf_file) == pdf_file.raises \/ pdf_file.saves[1] = "raises"
LoopEnded == pc = "batch" /\ processed = Len(pdf_files)
\* the output file of every PDF is there, with the error result for a
\* failing PDF and with the outline of the result for the others, and no
\* other output file is
BatchOutputs ==
    /\ DOMAIN output_dir \ {SummaryFile} = {JsonFile(pdf_files[i].stem) : i \in 1..Len(pdf_files)}
    /\ \A i \in 1..Len(pdf_files) :
          LET written == output_dir[JsonFile(pdf_files[i].stem)]
          IN  IF Failing(pdf_files[i])
              THEN /\ written.title = ErrorTitle
                   /\ written.outline = <<>>
                   /\ "error" \in DOMAIN written
              ELSE /\ "error" \notin DOMAIN written
                   /\ written.title = pdf_files[i].result.title
                   /\ Len(written.outline) = Len(pdf_files[i].result.outline)

\* C25 (batch isolation): a batch whose failures are extractions that raise
\* and first saves that raise comes to the end of its loop with one output
\* file <stem>.json for every PDF of the input directory, the error result
\* for every failing PDF, and the PDFs after a failing one processed.
C25_BatchIsolation ==
    (pc = "batch" /\ processed = 0 /\ ErrorSavesSucceed) ~> (LoopEnded /\ BatchOutputs)

\* a batch of two PDFs at the end of its loop: the extraction of the first
\* raised, the first save of the second raised, and both have their error
\* result
C25_Witness ==
    /\ LoopEnded
    /\ Len(pdf_files) = 2
    /\ pdf_files[1].raises
    /\ ~pdf_files[2].raises /\ pdf_files[2].saves = <<"raises", "ok">>
    /\ \A i \in 1..2 : output_dir[JsonFile(pdf_files[i].stem)].title = ErrorTitle

\* C30 (saved title bound): the title save_outline writes is a non-empty
\* string of at most 200 characters, and it is the string extract_title
\* returned whenever that is not the error title.
C30_SavedTitle ==
    pc = "saved" =>
        /\ saved.title # <<>>
        /\ Len(saved.title) <= 200
        /\ result.title # ErrorTitle => saved.title = result.title

=============================================================================
